---- MODULE Spec2Model ----
(***************************************************************************)
(* Model of the Supercharger profitability calculators                     *)
(* (src/calculator.py, src/calculator_enhanced.py) and of the market       *)
(* analyzer (src/market_analysis.py).                                      *)
(*                                                                         *)
(* Numbers.  The code computes with Python numbers: ints and IEEE-754      *)
(* binary64 floats.  Every number of the model is a binary64 value         *)
(* [k, sg, m, e] standing for sg * m * 2^e, with m = 0 or                  *)
(* 2^52 <= m < 2^53 held as a little-endian sequence of 15-bit limbs.      *)
(* FAdd, FSub, FMul and FDiv round to nearest, ties to even, as the        *)
(* hardware does, so a result of the model is bit for bit the result of    *)
(* the Python expression.  Integers below 2^53 are exact in this format,   *)
(* so Python's exact int arithmetic on the monetary defaults is the same   *)
(* arithmetic.  Exponents are unbounded (no overflow to infinity and no    *)
(* subnormals: the magnitudes of the program stay far inside the range),   *)
(* and -0.0 is not distinguished from 0.0 (Python compares them equal).    *)
(*                                                                         *)
(* A ZeroDivisionError is the value ZeroDivisionError, which every later   *)
(* operation passes on; a call whose result holds it has raised.           *)
(*                                                                         *)
(* Methods.  A method m(self) of the code is the operator m(self, float):  *)
(* float is the arithmetic the body computes with (Binary64), handed down  *)
(* from the action that makes the call.  A local variable is bound with    *)
(* Local([v \in {e} |-> body]).  Methods keep their names; the legacy      *)
(* calculate_annual_profit, whose name the enhanced calculator also uses,  *)
(* is Legacy_calculate_annual_profit, and the methods of the dataclasses   *)
(* and of MarketAnalyzer's construction carry the class name in front.     *)
(*                                                                         *)
(* Specifications.  Spec: calculators of both kinds are constructed from   *)
(* the configurations listed in CostChoices, RevenueChoices and            *)
(* LegacyChoices, asked for their report and printed, and the dashboard    *)
(* (src/app.py) renders the report.  SpecMarket: a MarketAnalyzer is       *)
(* constructed and queried.                                                *)
(***************************************************************************)
EXTENDS Integers, Sequences, FiniteSets, TLC

VARIABLES calc, report, calls, analyzer, result

vars == <<calc, report, calls, analyzer, result>>

Base == 2^15

Big == Seq(Nat)

BNorm[a \in Big] ==
    IF a = <<>> THEN a
    ELSE IF a[Len(a)] = 0 THEN BNorm[SubSeq(a, 1, Len(a) - 1)] ELSE a

BFromInt[n \in Nat] == BNorm[<<n % Base, (n \div Base) % Base, n \div (Base * Base)>>]

BAddC[a \in Big, b \in Big, i \in Nat, c \in Nat] ==
    IF i > Len(a) /\ i > Len(b) THEN (IF c = 0 THEN <<>> ELSE <<c>>)
    ELSE LET s == (IF i <= Len(a) THEN a[i] ELSE 0) + (IF i <= Len(b) THEN b[i] ELSE 0) + c
         IN  <<s % Base>> \o BAddC[a, b, i + 1, s \div Base]

BAdd[a \in Big, b \in Big] == BAddC[a, b, 1, 0]

BSubC[a \in Big, b \in Big, i \in Nat, c \in Nat] ==
    IF i > Len(a) THEN <<>>
    ELSE LET s == a[i] - (IF i <= Len(b) THEN b[i] ELSE 0) - c
         IN  <<s % Base>> \o BSubC[a, b, i + 1, IF s < 0 THEN 1 ELSE 0]

\* a - b for a >= b
BSub[a \in Big, b \in Big] == BNorm[BSubC[a, b, 1, 0]]

BCmpAt[a \in Big, b \in Big, i \in Nat] ==
    IF i = 0 THEN 0
    ELSE IF a[i] > b[i] THEN 1
    ELSE IF a[i] < b[i] THEN -1
    ELSE BCmpAt[a, b, i - 1]

\* -1, 0, 1 as a < b, a = b, a > b
BCmp[a \in Big, b \in Big] ==
    IF Len(a) > Len(b) THEN 1
    ELSE IF Len(a) < Len(b) THEN -1
    ELSE BCmpAt[a, b, Len(a)]

BMulSmallC[a \in Big, d \in Nat, i \in Nat, c \in Nat] ==
    IF i > Len(a) THEN (IF c = 0 THEN <<>> ELSE <<c>>)
    ELSE LET s == a[i] * d + c
         IN  <<s % Base>> \o BMulSmallC[a, d, i + 1, s \div Base]

\* a * d for one limb d
BMulSmall[a \in Big, d \in Nat] == IF d = 0 THEN <<>> ELSE BMulSmallC[a, d, 1, 0]

BShlLimbs[a \in Big, k \in Nat] == IF a = <<>> THEN a ELSE [i \in 1..k |-> 0] \o a

BMulAt[a \in Big, b \in Big, j \in Nat] ==
    IF j > Len(b) THEN <<>>
    ELSE BAdd[BShlLimbs[BMulSmall[a, b[j]], j - 1], BMulAt[a, b, j + 1]]

BMul[a \in Big, b \in Big] == BMulAt[a, b, 1]

\* a * 2^k
BShl[a \in Big, k \in Nat] == BShlLimbs[BMulSmall[a, 2^(k % 15)], (k \div 15)]

\* floor(a / 2^k)
BShrAt[a \in Big, q \in Nat, r \in Nat] ==
    IF Len(a) <= q THEN <<>>
    ELSE BNorm[[i \in 1..(Len(a) - q) |->
             (a[i + q] \div 2^r)
             + ((IF i + q + 1 <= Len(a) THEN a[i + q + 1] ELSE 0) % 2^r) * 2^(15 - r)]]

BShr[a \in Big, k \in Nat] == BShrAt[a, k \div 15, k % 15]

SmallBits[x \in Nat] == CHOOSE n \in 0..15 : x < 2^n /\ (n = 0 \/ x >= 2^(n - 1))

BBitLen[a \in Big] == IF a = <<>> THEN 0 ELSE (Len(a) - 1) * 15 + SmallBits[a[Len(a)]]

BOdd[a \in Big] == a # <<>> /\ a[1] % 2 = 1

\* ---- binary64 ----
F64 == [k : {"num", "inf", "raised"}, sg : {-1, 1}, m : Big, e : Int]

Num(sg, m, e) == [k |-> "num", sg |-> sg, m |-> m, e |-> e]
Zero == Num(1, <<>>, 0)
Inf == [k |-> "inf", sg |-> 1, m |-> <<>>, e |-> 0]
ZeroDivisionError == [k |-> "raised", sg |-> 1, m |-> <<>>, e |-> 0]
IsZero(a) == a.k = "num" /\ a.m = <<>>

\* q = floor(M / 2^sh) rounded on the remainder r = M - q * 2^sh
RoundUp[sg \in {-1, 1}, q \in Big, c \in {-1, 0, 1}, E \in Int, sticky \in BOOLEAN] ==
    LET q1 == IF c > 0 \/ (c = 0 /\ (sticky \/ BOdd[q])) THEN BAdd[q, <<1>>] ELSE q
    IN  IF BBitLen[q1] = 54 THEN Num(sg, BShr[q1, 1], E + 1) ELSE Num(sg, q1, E)

RoundAt[sg \in {-1, 1}, M \in Big, E \in Int, sticky \in BOOLEAN, n \in Nat] ==
    IF n = 0 THEN Zero
    ELSE IF n <= 53 THEN Num(sg, BShl[M, 53 - n], E - (53 - n))
    ELSE RoundUp[sg, BShr[M, n - 53],
                 BCmp[BSub[M, BShl[BShr[M, n - 53], n - 53]], BShl[<<1>>, n - 54]],
                 E + (n - 53), sticky]

Round[sg \in {-1, 1}, M \in Big, E \in Int, sticky \in BOOLEAN] ==
    RoundAt[sg, M, E, sticky, BBitLen[M]]

FromInt[n \in Int] ==
    IF n < 0 THEN Round[-1, BFromInt[-n], 0, FALSE] ELSE Round[1, BFromInt[n], 0, FALSE]

FNeg[a \in F64] == IF a.k # "num" \/ a.m = <<>> THEN a ELSE [a EXCEPT !.sg = -a.sg]

FMul[a \in F64, b \in F64] ==
    IF a.k # "num" \/ b.k # "num" THEN ZeroDivisionError
    ELSE IF a.m = <<>> \/ b.m = <<>> THEN Zero
    ELSE Round[a.sg * b.sg, BMul[a.m, b.m], a.e + b.e, FALSE]

\* hi + lo for numbers other than 0 with hi.e >= lo.e; H is hi.m aligned to lo.e
FAddAligned[hi \in F64, lo \in F64, H \in Big] ==
    IF hi.sg = lo.sg THEN Round[hi.sg, BAdd[H, lo.m], lo.e, FALSE]
    ELSE IF BCmp[H, lo.m] = 0 THEN Zero
    ELSE IF BCmp[H, lo.m] > 0 THEN Round[hi.sg, BSub[H, lo.m], lo.e, FALSE]
    ELSE Round[lo.sg, BSub[lo.m, H], lo.e, FALSE]

FAdd[a \in F64, b \in F64] ==
    IF a.k # "num" \/ b.k # "num" THEN ZeroDivisionError
    ELSE IF a.m = <<>> THEN b
    ELSE IF b.m = <<>> THEN a
    ELSE IF a.e >= b.e
         THEN (IF a.e - b.e >= 56 THEN a ELSE FAddAligned[a, b, BShl[a.m, a.e - b.e]])
         ELSE (IF b.e - a.e >= 56 THEN b ELSE FAddAligned[b, a, BShl[b.m, b.e - a.e]])

FSub[a \in F64, b \in F64] == FAdd[a, FNeg[b]]

DivBits[R \in Big, D \in Big, q \in Nat, k \in Nat] ==
    IF k = 0 THEN <<q, R>>
    ELSE IF BCmp[R, D] >= 0
         THEN DivBits[BShl[BSub[R, D], 1], D, 2 * q + 1, k - 1]
         ELSE DivBits[BShl[R, 1], D, 2 * q, k - 1]

\* digits of four DivBits runs after the first..: append 14 more bits
DivMore[Q \in Big, R \in Big, D \in Big, n \in Nat] ==
    IF n = 0 THEN <<Q, R # <<>>>>
    ELSE LET c == DivBits[R, D, 0, 14]
         IN  DivMore[BAdd[BShl[Q, 14], BFromInt[c[1]]], c[2], D, n - 1]

\* floor(N * 2^55 / D), and whether a remainder is left
Div56[N \in Big, D \in Big] == DivMore[<<>>, N, D, 4]

FDiv[a \in F64, b \in F64] ==
    IF a.k # "num" \/ b.k # "num" THEN ZeroDivisionError
    ELSE IF b.m = <<>> THEN ZeroDivisionError
    ELSE IF a.m = <<>> THEN Zero
    ELSE LET qr == Div56[a.m, b.m]
         IN  Round[a.sg * b.sg, qr[1], a.e - b.e - 55, qr[2]]

Sign(a) == IF a.m = <<>> THEN 0 ELSE a.sg

FCmp[a \in F64, b \in F64] ==
    IF a.k = "inf" \/ b.k = "inf"
    THEN (IF a.k = b.k THEN 0 ELSE IF a.k = "inf" THEN 1 ELSE -1)
    ELSE IF Sign(a) # Sign(b) THEN (IF Sign(a) < Sign(b) THEN -1 ELSE 1)
    ELSE IF Sign(a) = 0 THEN 0
    ELSE IF a.e # b.e THEN (IF a.e < b.e THEN -a.sg ELSE a.sg)
    ELSE a.sg * BCmp[a.m, b.m]

FLt(a, b) == FCmp[a, b] < 0
FLe(a, b) == FCmp[a, b] <= 0
FGt(a, b) == FCmp[a, b] > 0

Dec[n \in Int, d \in Int] == FDiv[FromInt[n], FromInt[d]]

(***************************************************************************)
(* src/calculator_enhanced.py                                              *)

\* a + b + c + ... as Python evaluates it, from the left
SumL[s \in Seq(F64)] ==
    IF Len(s) = 1 THEN s[1] ELSE FAdd[SumL[SubSeq(s, 1, Len(s) - 1)], s[Len(s)]]

\* the arithmetic of Python's float type: a * b is float.mul[a, b], float(n) is
\* float.of[n], the literal 0.42 is float.lit[42, 100], a + b + ... + z is
\* float.sum[<<a, b, ..., z>>]
Binary64 ==
    [mul |-> FMul, add |-> FAdd, sub |-> FSub, div |-> FDiv, of |-> FromInt,
     lit |-> Dec, sum |-> SumL]

\* a local variable: Local([v \in {e} |-> body]) is body with v bound to the value
\* of e
Local(f) == f[CHOOSE v \in DOMAIN f : TRUE]

\* InstallationCosts(): the declared defaults
InstallationCosts ==
    [site_preparation          |-> FromInt[50000],
     electrical_infrastructure |-> FromInt[150000],
     concrete_construction     |-> FromInt[40000],
     labor_costs               |-> FromInt[80000],
     permitting_inspections    |-> FromInt[25000],
     environmental_compliance  |-> FromInt[15000],
     contingency               |-> FromInt[25000]]

InstallationCosts_total(self, float) ==
    float.sum[<<self.site_preparation, self.electrical_infrastructure,
           self.concrete_construction, self.labor_costs,
           self.permitting_inspections, self.environmental_compliance,
           self.contingency>>]

\* EquipmentCosts(): the declared defaults
EquipmentCosts ==
    [num_stalls         |-> FromInt[8],
     charger_unit_cost  |-> FromInt[30000],
     transformer_cost   |-> FromInt[45000],
     switchgear_cost    |-> FromInt[35000],
     cabling_materials  |-> FromInt[25000],
     canopy_shelter     |-> FromInt[80000],
     signage_lighting   |-> FromInt[15000],
     payment_systems    |-> FromInt[12000],
     monitoring_systems |-> FromInt[18000]]

\* the charger cost counted once, not once per stall
EquipmentCosts_total_one_charger(self, float) ==
    float.sum[<<self.charger_unit_cost,
           self.transformer_cost, self.switchgear_cost, self.cabling_materials,
           self.canopy_shelter, self.signage_lighting, self.payment_systems,
           self.monitoring_systems>>]

EquipmentCosts_total(self, float) ==
    float.sum[<<float.mul[self.charger_unit_cost, self.num_stalls],
           self.transformer_cost, self.switchgear_cost, self.cabling_materials,
           self.canopy_shelter, self.signage_lighting, self.payment_systems,
           self.monitoring_systems>>]

\* LicensingLegalCosts(): the declared defaults
LicensingLegalCosts ==
    [business_licenses     |-> FromInt[5000],
     environmental_permits |-> FromInt[8000],
     legal_fees            |-> FromInt[12000],
     insurance_setup       |-> FromInt[3000],
     trademark_branding    |-> FromInt[5000]]

LicensingLegalCosts_total(self, float) ==
    float.sum[<<self.business_licenses, self.environmental_permits, self.legal_fees,
           self.insurance_setup, self.trademark_branding>>]

\* AnnualOperatingCosts(): the declared defaults
AnnualOperatingCosts ==
    [land_lease_rent          |-> FromInt[36000],
     property_taxes           |-> FromInt[12000],
     business_taxes           |-> FromInt[8000],
     insurance_annual         |-> FromInt[15000],
     maintenance_contract     |-> FromInt[20000],
     cleaning_upkeep          |-> FromInt[8000],
     security_monitoring      |-> FromInt[6000],
     network_connectivity     |-> FromInt[3600],
     software_management_fees |-> FromInt[12000],
     utilities_non_charging   |-> FromInt[4000],
     repairs_reserve          |-> FromInt[10000]]

AnnualOperatingCosts_total_fixed(self, float) ==
    float.sum[<<self.land_lease_rent, self.property_taxes, self.business_taxes,
           self.insurance_annual, self.maintenance_contract, self.cleaning_upkeep,
           self.security_monitoring, self.network_connectivity,
           self.software_management_fees, self.utilities_non_charging,
           self.repairs_reserve>>]

\* RevenueParameters(): the declared defaults
RevenueParameters ==
    [num_stalls                   |-> FromInt[8],
     peak_price                   |-> Dec[42, 100],
     standard_price               |-> Dec[35, 100],
     off_peak_price               |-> Dec[28, 100],
     peak_usage_percent           |-> Dec[25, 100],
     standard_usage_percent       |-> Dec[60, 100],
     off_peak_usage_percent       |-> Dec[15, 100],
     avg_kwh_per_session          |-> FromInt[50],
     sessions_per_stall_per_day   |-> FromInt[6],
     utilization_rate             |-> Dec[70, 100],
     idle_fee_per_minute          |-> Dec[50, 100],
     avg_idle_minutes_per_session |-> FromInt[5],
     idle_fee_occurrence_rate     |-> Dec[30, 100],
     membership_monthly_fee       |-> Dec[999, 100],
     percent_members              |-> Dec[15, 100],
     member_discount_per_kwh      |-> Dec[5, 100],
     summer_multiplier            |-> Dec[115, 100],
     winter_multiplier            |-> Dec[95, 100],
     spring_fall_multiplier       |-> FromInt[1],
     electricity_rate_peak        |-> Dec[18, 100],
     electricity_rate_standard    |-> Dec[14, 100],
     electricity_rate_off_peak    |-> Dec[10, 100],
     weekday_multiplier           |-> Dec[105, 100],
     weekend_multiplier           |-> Dec[95, 100]]

\* EnhancedSuperchargerCalculator(installation, equipment, licensing, operating, revenue)
EnhancedSuperchargerCalculator(installation, equipment, licensing, operating, revenue) ==
    [kind         |-> "enhanced",
     installation |-> installation,
     equipment    |-> equipment,
     licensing    |-> licensing,
     operating    |-> operating,
     revenue      |-> revenue]

\* the licensing and legal costs left out of the total
calculate_total_initial_investment_without_licensing(self, float) ==
    Local([installation_total \in {InstallationCosts_total(self.installation, float)} |->
    Local([equipment_total \in {EquipmentCosts_total(self.equipment, float)} |->
    Local([licensing_total \in {LicensingLegalCosts_total(self.licensing, float)} |->
        [installation    |-> installation_total,
         equipment       |-> equipment_total,
         licensing_legal |-> licensing_total,
         total           |-> float.sum[<<installation_total, equipment_total>>]]])])])

calculate_total_initial_investment(self, float) ==
    Local([installation_total \in {InstallationCosts_total(self.installation, float)} |->
    Local([equipment_total \in {EquipmentCosts_total(self.equipment, float)} |->
    Local([licensing_total \in {LicensingLegalCosts_total(self.licensing, float)} |->
        [installation    |-> installation_total,
         equipment       |-> equipment_total,
         licensing_legal |-> licensing_total,
         total           |-> float.sum[<<installation_total, equipment_total,
                                    licensing_total>>]]])])])

\* the tiers split from the baseline count, before the weekday and weekend
\* multipliers
calculate_annual_sessions_tiers_of_baseline(self, float) ==
    Local([total_sessions \in {float.mul[float.mul[float.mul[self.revenue.num_stalls,
                       self.revenue.sessions_per_stall_per_day],
                  float.of[365]],
             self.revenue.utilization_rate]} |->
    Local([weekday_sessions \in {float.mul[float.mul[total_sessions, float.div[float.of[5], float.of[7]]],
             self.revenue.weekday_multiplier]} |->
    Local([weekend_sessions \in {float.mul[float.mul[total_sessions, float.div[float.of[2], float.of[7]]],
             self.revenue.weekend_multiplier]} |->
        [weekday_sessions  |-> weekday_sessions,
         weekend_sessions  |-> weekend_sessions,
         total_sessions    |-> float.add[weekday_sessions, weekend_sessions],
         peak_sessions     |-> float.mul[total_sessions, self.revenue.peak_usage_percent],
         standard_sessions |-> float.mul[total_sessions, self.revenue.standard_usage_percent],
         off_peak_sessions |-> float.mul[total_sessions, self.revenue.off_peak_usage_percent]]])])])

calculate_annual_sessions(self, float) ==
    Local([total_sessions \in {float.mul[float.mul[float.mul[self.revenue.num_stalls,
                       self.revenue.sessions_per_stall_per_day],
                  float.of[365]],
             self.revenue.utilization_rate]} |->
    Local([weekday_sessions \in {float.mul[float.mul[total_sessions, float.div[float.of[5], float.of[7]]],
             self.revenue.weekday_multiplier]} |->
    Local([weekend_sessions \in {float.mul[float.mul[total_sessions, float.div[float.of[2], float.of[7]]],
             self.revenue.weekend_multiplier]} |->
    Local([adjusted_total \in {float.add[weekday_sessions, weekend_sessions]} |->
        [weekday_sessions  |-> weekday_sessions,
         weekend_sessions  |-> weekend_sessions,
         total_sessions    |-> adjusted_total,
         peak_sessions     |-> float.mul[adjusted_total, self.revenue.peak_usage_percent],
         standard_sessions |-> float.mul[adjusted_total, self.revenue.standard_usage_percent],
         off_peak_sessions |-> float.mul[adjusted_total, self.revenue.off_peak_usage_percent]]])])])])

\* the member discount taken off the standard tier only
calculate_charging_revenue_discount_on_standard_tier(self, float) ==
    Local([sessions \in {calculate_annual_sessions(self, float)} |->
    Local([peak_kwh \in {float.mul[sessions.peak_sessions, self.revenue.avg_kwh_per_session]} |->
    Local([standard_kwh \in {float.mul[sessions.standard_sessions, self.revenue.avg_kwh_per_session]} |->
    Local([off_peak_kwh \in {float.mul[sessions.off_peak_sessions, self.revenue.avg_kwh_per_session]} |->
    Local([member_adjustment \in {float.sub[float.of[1],
             float.mul[self.revenue.percent_members,
                  float.div[self.revenue.member_discount_per_kwh,
                       self.revenue.standard_price]]]} |->
    Local([peak_revenue \in {float.mul[peak_kwh, self.revenue.peak_price]} |->
    Local([standard_revenue \in {float.mul[float.mul[standard_kwh, self.revenue.standard_price], member_adjustment]} |->
    Local([off_peak_revenue \in {float.mul[off_peak_kwh, self.revenue.off_peak_price]} |->
    Local([seasonal_avg \in {float.sum[<<float.mul[self.revenue.summer_multiplier, float.lit[25, 100]],
               float.mul[self.revenue.winter_multiplier, float.lit[25, 100]],
               float.mul[self.revenue.spring_fall_multiplier, float.lit[50, 100]]>>]} |->
        [peak_revenue     |-> float.mul[peak_revenue, seasonal_avg],
         standard_revenue |-> float.mul[standard_revenue, seasonal_avg],
         off_peak_revenue |-> float.mul[off_peak_revenue, seasonal_avg],
         total_charging_revenue |->
             float.mul[float.sum[<<peak_revenue, standard_revenue, off_peak_revenue>>],
                  seasonal_avg],
         peak_kwh     |-> peak_kwh,
         standard_kwh |-> standard_kwh,
         off_peak_kwh |-> off_peak_kwh,
         total_kwh    |-> float.sum[<<peak_kwh, standard_kwh, off_peak_kwh>>]]])])])])])])])])])

calculate_charging_revenue(self, float) ==
    Local([sessions \in {calculate_annual_sessions(self, float)} |->
    Local([peak_kwh \in {float.mul[sessions.peak_sessions, self.revenue.avg_kwh_per_session]} |->
    Local([standard_kwh \in {float.mul[sessions.standard_sessions, self.revenue.avg_kwh_per_session]} |->
    Local([off_peak_kwh \in {float.mul[sessions.off_peak_sessions, self.revenue.avg_kwh_per_session]} |->
    Local([member_adjustment \in {float.sub[float.of[1],
             float.mul[self.revenue.percent_members,
                  float.div[self.revenue.member_discount_per_kwh,
                       self.revenue.standard_price]]]} |->
    Local([peak_revenue \in {float.mul[float.mul[peak_kwh, self.revenue.peak_price], member_adjustment]} |->
    Local([standard_revenue \in {float.mul[float.mul[standard_kwh, self.revenue.standard_price], member_adjustment]} |->
    Local([off_peak_revenue \in {float.mul[float.mul[off_peak_kwh, self.revenue.off_peak_price], member_adjustment]} |->
    Local([seasonal_avg \in {float.sum[<<float.mul[self.revenue.summer_multiplier, float.lit[25, 100]],
               float.mul[self.revenue.winter_multiplier, float.lit[25, 100]],
               float.mul[self.revenue.spring_fall_multiplier, float.lit[50, 100]]>>]} |->
        [peak_revenue     |-> float.mul[peak_revenue, seasonal_avg],
         standard_revenue |-> float.mul[standard_revenue, seasonal_avg],
         off_peak_revenue |-> float.mul[off_peak_revenue, seasonal_avg],
         total_charging_revenue |->
             float.mul[float.sum[<<peak_revenue, standard_revenue, off_peak_revenue>>],
                  seasonal_avg],
         peak_kwh     |-> peak_kwh,
         standard_kwh |-> standard_kwh,
         off_peak_kwh |-> off_peak_kwh,
         total_kwh    |-> float.sum[<<peak_kwh, standard_kwh, off_peak_kwh>>]]])])])])])])])])])

\* every session charged the idle fee, whatever idle_fee_occurrence_rate
calculate_additional_revenue_every_session_idles(self, float) ==
    Local([sessions \in {calculate_annual_sessions(self, float)} |->
    Local([idle_revenue \in {float.mul[float.mul[sessions.total_sessions,
                  self.revenue.avg_idle_minutes_per_session],
             self.revenue.idle_fee_per_minute]} |->
    Local([unique_customers \in {float.div[float.div[sessions.total_sessions, float.of[12]],
             float.of[4]]} |->
    Local([members \in {float.mul[unique_customers, self.revenue.percent_members]} |->
    Local([membership_revenue \in {float.mul[float.mul[members, self.revenue.membership_monthly_fee], float.of[12]]} |->
        [idle_fee_revenue         |-> idle_revenue,
         membership_revenue       |-> membership_revenue,
         total_additional_revenue |-> float.add[idle_revenue, membership_revenue]]])])])])])

calculate_additional_revenue(self, float) ==
    Local([sessions \in {calculate_annual_sessions(self, float)} |->
    Local([idle_sessions \in {float.mul[sessions.total_sessions, self.revenue.idle_fee_occurrence_rate]} |->
    Local([idle_revenue \in {float.mul[float.mul[idle_sessions, self.revenue.avg_idle_minutes_per_session],
             self.revenue.idle_fee_per_minute]} |->
    Local([avg_sessions_per_customer_monthly \in {float.of[4]} |->
    Local([unique_customers \in {float.div[float.div[sessions.total_sessions, float.of[12]],
             avg_sessions_per_customer_monthly]} |->
    Local([members \in {float.mul[unique_customers, self.revenue.percent_members]} |->
    Local([membership_revenue \in {float.mul[float.mul[members, self.revenue.membership_monthly_fee], float.of[12]]} |->
        [idle_fee_revenue         |-> idle_revenue,
         membership_revenue       |-> membership_revenue,
         total_additional_revenue |-> float.add[idle_revenue, membership_revenue]]])])])])])])])

\* the total without the membership revenue
calculate_total_annual_revenue_without_memberships(self, float) ==
    Local([charging_rev \in {calculate_charging_revenue(self, float)} |->
    Local([additional_rev \in {calculate_additional_revenue(self, float)} |->
        [charging_revenue |-> charging_rev.total_charging_revenue,
         idle_fees        |-> additional_rev.idle_fee_revenue,
         memberships      |-> additional_rev.membership_revenue,
         total_revenue    |-> float.add[charging_rev.total_charging_revenue,
                                   additional_rev.idle_fee_revenue]]])])

calculate_total_annual_revenue(self, float) ==
    Local([charging_rev \in {calculate_charging_revenue(self, float)} |->
    Local([additional_rev \in {calculate_additional_revenue(self, float)} |->
        [charging_revenue |-> charging_rev.total_charging_revenue,
         idle_fees        |-> additional_rev.idle_fee_revenue,
         memberships      |-> additional_rev.membership_revenue,
         total_revenue    |-> float.add[charging_rev.total_charging_revenue,
                                   additional_rev.total_additional_revenue]]])])

calculate_electricity_costs(self, float) ==
    Local([charging_data \in {calculate_charging_revenue(self, float)} |->
    Local([peak_cost \in {float.mul[charging_data.peak_kwh, self.revenue.electricity_rate_peak]} |->
    Local([standard_cost \in {float.mul[charging_data.standard_kwh, self.revenue.electricity_rate_standard]} |->
    Local([off_peak_cost \in {float.mul[charging_data.off_peak_kwh, self.revenue.electricity_rate_off_peak]} |->
        [peak_electricity_cost     |-> peak_cost,
         standard_electricity_cost |-> standard_cost,
         off_peak_electricity_cost |-> off_peak_cost,
         total_electricity_cost    |-> float.sum[<<peak_cost, standard_cost, off_peak_cost>>]]])])])])

calculate_total_annual_costs(self, float) ==
    Local([electricity \in {calculate_electricity_costs(self, float)} |->
    Local([fixed_costs \in {AnnualOperatingCosts_total_fixed(self.operating, float)} |->
        [electricity_costs     |-> electricity.total_electricity_cost,
         fixed_operating_costs |-> fixed_costs,
         total_annual_costs    |-> float.add[electricity.total_electricity_cost, fixed_costs]]])])

\* the electricity bill left out of the costs
calculate_annual_profit_fixed_costs_only(self, float) ==
    Local([revenue \in {calculate_total_annual_revenue(self, float)} |->
    Local([costs \in {calculate_total_annual_costs(self, float)} |->
        float.sub[revenue.total_revenue, costs.fixed_operating_costs]])])

calculate_annual_profit(self, float) ==
    Local([revenue \in {calculate_total_annual_revenue(self, float)} |->
    Local([costs \in {calculate_total_annual_costs(self, float)} |->
        float.sub[revenue.total_revenue, costs.total_annual_costs]])])

calculate_roi_metrics(self, float) ==
    Local([initial_investment \in {calculate_total_initial_investment(self, float).total} |->
    Local([annual_profit \in {calculate_annual_profit(self, float)} |->
    Local([roi \in {IF FGt(initial_investment, Zero)
        THEN float.mul[float.div[annual_profit, initial_investment], float.of[100]]
        ELSE Zero} |->
    Local([payback \in {IF FGt(annual_profit, Zero)
        THEN float.div[initial_investment, annual_profit]
        ELSE Inf} |->
    Local([year_5_total \in {float.sub[float.mul[annual_profit, float.of[5]], initial_investment]} |->
    Local([year_10_total \in {float.sub[float.mul[annual_profit, float.of[10]], initial_investment]} |->
        [roi_percentage            |-> roi,
         payback_period_years      |-> payback,
         year_5_cumulative_profit  |-> year_5_total,
         year_10_cumulative_profit |-> year_10_total]])])])])])])

generate_comprehensive_report(self, float) ==
    [initial_investment      |-> calculate_total_initial_investment(self, float),
     annual_revenue          |-> calculate_total_annual_revenue(self, float),
     annual_costs            |-> calculate_total_annual_costs(self, float),
     annual_profit           |-> calculate_annual_profit(self, float),
     electricity_breakdown   |-> calculate_electricity_costs(self, float),
     charging_revenue_detail |-> calculate_charging_revenue(self, float),
     additional_revenue      |-> calculate_additional_revenue(self, float),
     roi_metrics             |-> calculate_roi_metrics(self, float),
     sessions_breakdown      |-> calculate_annual_sessions(self, float)]

\* whether evaluating a section of the report raised
Raises(r) ==
    \E s \in DOMAIN r :
        IF s = "annual_profit" THEN r[s].k = "raised"
        ELSE \E f \in DOMAIN r[s] : r[s][f].k = "raised"

\* f"{x:.<precision>f}": the text "inf" for float('inf'), else x in decimal
\* notation with precision digits after the point (the digits are not spelled
\* out: the text is given by the number and the precision)
format_f(x, precision) ==
    IF x.k = "inf" THEN [digits |-> "inf"]
    ELSE [digits |-> "decimal", precision |-> precision, of |-> x]

\* what a rendering shows for the payback period
Never == [text |-> "Never"]
Years(number) == [text |-> "years", number |-> number]

\* print_report of the enhanced calculator: the lines that read
\* payback_period_years, the payback line and the recommendation
print_report(self, float) ==
    Local([report_ \in {generate_comprehensive_report(self, float)} |->
        IF Raises(report_) THEN [op |-> "print_report", status |-> "raised"]
        ELSE Local([roi \in {report_.roi_metrics} |->
            [op             |-> "print_report",
             status         |-> "printed",
             payback_period |-> IF roi.payback_period_years = Inf THEN Never
                                ELSE Years(format_f(roi.payback_period_years, 2)),
             recommendation |->
                 IF FGt(report_.annual_profit, Zero)
                        /\ FLt(roi.payback_period_years, float.of[5])
                 THEN "Excellent investment opportunity"
                 ELSE IF FGt(report_.annual_profit, Zero)
                        /\ FLt(roi.payback_period_years, float.of[7])
                 THEN "Good investment opportunity"
                 ELSE IF FGt(report_.annual_profit, Zero)
                 THEN "Marginal - Long payback period"
                 ELSE "Not profitable with current parameters"]])])

(***************************************************************************)
(* src/calculator.py                                                       *)
(***************************************************************************)
\* SuperchargerProfitabilityCalculator(...): the arguments' defaults
LegacyDefaults ==
    [num_stalls                 |-> FromInt[8],
     equipment_cost_per_stall   |-> FromInt[35000],
     installation_cost          |-> FromInt[100000],
     permitting_fees            |-> FromInt[25000],
     land_lease_annual          |-> FromInt[24000],
     electricity_rate_kwh       |-> Dec[15, 100],
     maintenance_annual         |-> FromInt[15000],
     charging_price_kwh         |-> Dec[35, 100],
     avg_kwh_per_session        |-> FromInt[50],
     sessions_per_stall_per_day |-> FromInt[5],
     utilization_rate           |-> Dec[70, 100]]

SuperchargerProfitabilityCalculator(args) ==
    [kind |-> "legacy"] @@ args

calculate_initial_investment(self, float) ==
    Local([equipment_total \in {float.mul[self.num_stalls, self.equipment_cost_per_stall]} |->
        float.sum[<<equipment_total, self.installation_cost, self.permitting_fees>>]])

calculate_annual_revenue(self, float) ==
    Local([sessions_per_year \in {float.mul[float.mul[float.mul[self.num_stalls, self.sessions_per_stall_per_day],
                  float.of[365]],
             self.utilization_rate]} |->
    Local([kwh_per_year \in {float.mul[sessions_per_year, self.avg_kwh_per_session]} |->
        float.mul[kwh_per_year, self.charging_price_kwh]])])

calculate_annual_electricity_cost(self, float) ==
    Local([sessions_per_year \in {float.mul[float.mul[float.mul[self.num_stalls, self.sessions_per_stall_per_day],
                  float.of[365]],
             self.utilization_rate]} |->
    Local([kwh_per_year \in {float.mul[sessions_per_year, self.avg_kwh_per_session]} |->
        float.mul[kwh_per_year, self.electricity_rate_kwh]])])

calculate_annual_operating_costs(self, float) ==
    Local([electricity_cost \in {calculate_annual_electricity_cost(self, float)} |->
        float.sum[<<electricity_cost, self.land_lease_annual, self.maintenance_annual>>]])

Legacy_calculate_annual_profit(self, float) ==
    Local([revenue \in {calculate_annual_revenue(self, float)} |->
    Local([costs \in {calculate_annual_operating_costs(self, float)} |->
        float.sub[revenue, costs]])])

calculate_roi(self, float) ==
    Local([initial_investment \in {calculate_initial_investment(self, float)} |->
    Local([annual_profit \in {Legacy_calculate_annual_profit(self, float)} |->
        IF IsZero(initial_investment) THEN Zero
        ELSE float.mul[float.div[annual_profit, initial_investment], float.of[100]]])])

\* the guard written annual_profit < 0: a profit of exactly 0 is divided by
calculate_payback_period_strict_guard(self, float) ==
    Local([initial_investment \in {calculate_initial_investment(self, float)} |->
    Local([annual_profit \in {Legacy_calculate_annual_profit(self, float)} |->
        IF FLt(annual_profit, Zero) THEN Inf
        ELSE float.div[initial_investment, annual_profit]])])

calculate_payback_period(self, float) ==
    Local([initial_investment \in {calculate_initial_investment(self, float)} |->
    Local([annual_profit \in {Legacy_calculate_annual_profit(self, float)} |->
        IF FLe(annual_profit, Zero) THEN Inf
        ELSE float.div[initial_investment, annual_profit]])])

\* losses clamped to 0 before they are accumulated
calculate_5year_profit_clamped(self, float) ==
    Local([annual_profit \in {Legacy_calculate_annual_profit(self, float)} |->
    Local([initial_investment \in {calculate_initial_investment(self, float)} |->
        float.sub[float.mul[IF FLt(annual_profit, Zero) THEN Zero ELSE annual_profit,
                            float.of[5]],
                  initial_investment]])])

calculate_5year_profit(self, float) ==
    Local([annual_profit \in {Legacy_calculate_annual_profit(self, float)} |->
    Local([initial_investment \in {calculate_initial_investment(self, float)} |->
        float.sub[float.mul[annual_profit, float.of[5]], initial_investment]])])

generate_report(self, float) ==
    [initial_investment      |-> calculate_initial_investment(self, float),
     annual_revenue          |-> calculate_annual_revenue(self, float),
     annual_electricity_cost |-> calculate_annual_electricity_cost(self, float),
     annual_operating_costs  |-> calculate_annual_operating_costs(self, float),
     annual_profit           |-> Legacy_calculate_annual_profit(self, float),
     roi_percentage          |-> calculate_roi(self, float),
     payback_period_years    |-> calculate_payback_period(self, float),
     five_year_profit        |-> calculate_5year_profit(self, float)]

\* print_report of the legacy calculator: the payback line and the
\* recommendation
Legacy_print_report(self, float) ==
    Local([report_ \in {generate_report(self, float)} |->
        [op             |-> "print_report",
         status         |-> "printed",
         payback_period |-> IF report_.payback_period_years = Inf THEN Never
                            ELSE Years(format_f(report_.payback_period_years, 2)),
         recommendation |->
             IF FGt(report_.annual_profit, Zero)
                    /\ FLt(report_.payback_period_years, float.of[7])
             THEN "Good investment opportunity"
             ELSE IF FGt(report_.annual_profit, Zero)
             THEN "Marginal - Long payback period"
             ELSE "Not profitable with current parameters"]])

(***************************************************************************)
(* src/app.py: the dashboard's renderings of report, the report of the     *)
(* calculator built from the sidebar's inputs                              *)
(***************************************************************************)
\* str(x), as DataFrame.to_csv writes a float: "inf" for float('inf'), else
\* the shortest decimal text that reads back as x
float_repr(x) ==
    IF x.k = "inf" THEN [digits |-> "inf"] ELSE [digits |-> "repr", of |-> x]

\* tab1 (Overview): the payback metric and the recommendation
tab1(report_) ==
    Local([payback \in {report_.roi_metrics.payback_period_years} |->
    Local([annual_profit \in {report_.annual_profit} |->
        [op             |-> "tab1",
         payback_period |-> IF payback = Inf THEN Never
                            ELSE Years(format_f(payback, 1)),
         recommendation |->
             IF FGt(annual_profit, Zero) /\ FLt(payback, FromInt[5])
             THEN "Excellent Investment Opportunity"
             ELSE IF FGt(annual_profit, Zero) /\ FLt(payback, FromInt[7])
             THEN "Good Investment Opportunity"
             ELSE IF FGt(annual_profit, Zero)
             THEN "Marginal Investment"
             ELSE "Not Recommended"]])])

\* cumulative_profit[year] of tab3's loop: -initial_inv for year 0, then the
\* previous entry plus annual_profit_value
cumulative_profit[initial_inv \in F64, annual_profit_value \in F64, year \in Nat] ==
    IF year = 0 THEN FNeg[initial_inv]
    ELSE FAdd[cumulative_profit[initial_inv, annual_profit_value, year - 1],
              annual_profit_value]

\* tab3 (Projections): the years 0..10 and the cumulative profit of each,
\* the x and y of the projection chart
tab3(report_) ==
    Local([annual_profit_value \in {report_.annual_profit} |->
    Local([initial_inv \in {report_.initial_investment.total} |->
        [op                |-> "tab3",
         years             |-> [k \in 1..11 |-> k - 1],
         cumulative_profit |->
             [k \in 1..11 |-> cumulative_profit[initial_inv, annual_profit_value, k - 1]]]])])

\* tab6 (Export Report): the payback line of report_text and the
\* 'Payback Years' cell of csv_data.to_csv()
tab6(report_) ==
    [op          |-> "tab6",
     report_text |-> [payback_period |->
                         Years(format_f(report_.roi_metrics.payback_period_years, 2))],
     csv_data    |-> [payback_years |->
                         float_repr(report_.roi_metrics.payback_period_years)]]

(***************************************************************************)
(* src/market_analysis.py                                                  *)
(*                                                                         *)
(* A DataFrame is [columns, index, rows]: the column names in order, the   *)
(* row labels, and the rows as records over the columns.  The int64        *)
(* columns (population, chargers) hold integers, the float64 columns       *)
(* binary64 values; lat and lon are never computed with and are kept as    *)
(* written.                                                                *)
(***************************************************************************)
\* Name, State, Lat, Lon, Population, Existing_Chargers
US_METRO_AREAS ==
    <<<<"New York", "NY", "40.7128", "-74.0060", 8336817, 45>>,
      <<"Los Angeles", "CA", "34.0522", "-118.2437", 3898747, 52>>,
      <<"Chicago", "IL", "41.8781", "-87.6298", 2746388, 28>>,
      <<"Houston", "TX", "29.7604", "-95.3698", 2304580, 25>>,
      <<"Phoenix", "AZ", "33.4484", "-112.0740", 1608139, 18>>,
      <<"Philadelphia", "PA", "39.9526", "-75.1652", 1603797, 15>>,
      <<"San Antonio", "TX", "29.4241", "-98.4936", 1434625, 12>>,
      <<"San Diego", "CA", "32.7157", "-117.1611", 1386932, 22>>,
      <<"Dallas", "TX", "32.7767", "-96.7970", 1304379, 24>>,
      <<"San Jose", "CA", "37.3382", "-121.8863", 1013240, 28>>,
      <<"Austin", "TX", "30.2672", "-97.7431", 961855, 16>>,
      <<"Jacksonville", "FL", "30.3322", "-81.6557", 949611, 8>>,
      <<"Fort Worth", "TX", "32.7555", "-97.3308", 918915, 10>>,
      <<"Columbus", "OH", "39.9612", "-82.9988", 905748, 9>>,
      <<"Charlotte", "NC", "35.2271", "-80.8431", 897720, 11>>,
      <<"San Francisco", "CA", "37.7749", "-122.4194", 873965, 35>>,
      <<"Indianapolis", "IN", "39.7684", "-86.1581", 887642, 8>>,
      <<"Seattle", "WA", "47.6062", "-122.3321", 749256, 30>>,
      <<"Denver", "CO", "39.7392", "-104.9903", 715522, 20>>,
      <<"Washington", "DC", "38.9072", "-77.0369", 712816, 25>>,
      <<"Boston", "MA", "42.3601", "-71.0589", 675647, 22>>,
      <<"Nashville", "TN", "36.1627", "-86.7816", 689447, 10>>,
      <<"Detroit", "MI", "42.3314", "-83.0458", 639111, 12>>,
      <<"Oklahoma City", "OK", "35.4676", "-97.5164", 687725, 7>>,
      <<"Portland", "OR", "45.5152", "-122.6784", 652503, 18>>,
      <<"Las Vegas", "NV", "36.1699", "-115.1398", 656274, 15>>,
      <<"Memphis", "TN", "35.1495", "-90.0490", 633104, 6>>,
      <<"Louisville", "KY", "38.2527", "-85.7585", 633045, 5>>,
      <<"Baltimore", "MD", "39.2904", "-76.6122", 585708, 10>>,
      <<"Milwaukee", "WI", "43.0389", "-87.9065", 577222, 8>>,
      <<"Albuquerque", "NM", "35.0844", "-106.6504", 564559, 9>>,
      <<"Tucson", "AZ", "32.2226", "-110.9747", 548073, 8>>,
      <<"Fresno", "CA", "36.7378", "-119.7871", 542107, 6>>,
      <<"Sacramento", "CA", "38.5816", "-121.4944", 524943, 14>>,
      <<"Kansas City", "MO", "39.0997", "-94.5786", 508090, 9>>,
      <<"Atlanta", "GA", "33.7490", "-84.3880", 498715, 20>>,
      <<"Miami", "FL", "25.7617", "-80.1918", 449514, 18>>,
      <<"Raleigh", "NC", "35.7796", "-78.6382", 474069, 8>>,
      <<"Omaha", "NE", "41.2565", "-95.9345", 486051, 5>>,
      <<"Colorado Springs", "CO", "38.8339", "-104.8214", 478961, 7>>,
      <<"Minneapolis", "MN", "44.9778", "-93.2650", 425403, 15>>,
      <<"Tampa", "FL", "27.9506", "-82.4572", 398173, 12>>,
      <<"Orlando", "FL", "28.5383", "-81.3792", 307573, 14>>,
      <<"Cleveland", "OH", "41.4993", "-81.6944", 372624, 7>>,
      <<"Boise", "ID", "43.6150", "-116.2023", 235684, 6>>,
      <<"Salt Lake City", "UT", "40.7608", "-111.8910", 200567, 12>>,
      <<"Buffalo", "NY", "42.8864", "-78.8784", 276807, 5>>,
      <<"Pittsburgh", "PA", "40.4406", "-79.9959", 302971, 8>>,
      <<"Cincinnati", "OH", "39.1031", "-84.5120", 309317, 7>>,
      <<"Anchorage", "AK", "61.2181", "-149.9003", 291247, 3>>,
      <<"St. Louis", "MO", "38.6270", "-90.1994", 301578, 10>>,
      <<"Madison", "WI", "43.0731", "-89.4012", 269840, 5>>,
      <<"Des Moines", "IA", "41.6005", "-93.6091", 214133, 4>>,
      <<"Richmond", "VA", "37.5407", "-77.4360", 230436, 6>>,
      <<"Charleston", "SC", "32.7765", "-79.9311", 150227, 4>>,
      <<"Birmingham", "AL", "33.5186", "-86.8104", 200733, 5>>,
      <<"New Orleans", "LA", "29.9511", "-90.0715", 383997, 6>>,
      <<"Little Rock", "AR", "34.7465", "-92.2896", 202591, 3>>,
      <<"Spokane", "WA", "47.6588", "-117.4260", 228989, 5>>,
      <<"Fargo", "ND", "46.8772", "-96.7898", 125990, 2>>,
      <<"Sioux Falls", "SD", "43.5460", "-96.7313", 192517, 3>>>>

\* pd.DataFrame(US_METRO_AREAS, columns=[...]), with the default RangeIndex;
\* metro_areas is the module's list US_METRO_AREAS as it is when the analyzer
\* is constructed
\* the last metro area entered with no charger yet
MarketAnalyzer_create_dataframe_before_first_charger(metro_areas) ==
    [columns |-> <<"city", "state", "lat", "lon", "population", "chargers">>,
     index   |-> [i \in 1..Len(metro_areas) |-> i - 1],
     rows    |-> [i \in 1..Len(metro_areas) |->
                     [city       |-> metro_areas[i][1],
                      state      |-> metro_areas[i][2],
                      lat        |-> metro_areas[i][3],
                      lon        |-> metro_areas[i][4],
                      population |-> metro_areas[i][5],
                      chargers   |-> IF i = Len(metro_areas) THEN 0
                                     ELSE metro_areas[i][6]]]]

MarketAnalyzer_create_dataframe(metro_areas) ==
    [columns |-> <<"city", "state", "lat", "lon", "population", "chargers">>,
     index   |-> [i \in 1..Len(metro_areas) |-> i - 1],
     rows    |-> [i \in 1..Len(metro_areas) |->
                     [city       |-> metro_areas[i][1],
                      state      |-> metro_areas[i][2],
                      lat        |-> metro_areas[i][3],
                      lon        |-> metro_areas[i][4],
                      population |-> metro_areas[i][5],
                      chargers   |-> metro_areas[i][6]]]]

\* df[column] as a sequence
Column(df, column) == [i \in 1..Len(df.rows) |-> df.rows[i][column]]

\* Series.sum() of an int64 column
IntSum[s \in Seq(Int)] == IF s = <<>> THEN 0 ELSE IntSum[SubSeq(s, 1, Len(s) - 1)] + s[Len(s)]

\* Series.max() of an int64 column
IntMax[s \in Seq(Int)] ==
    CHOOSE m \in {s[i] : i \in 1..Len(s)} : \A i \in 1..Len(s) : s[i] <= m

\* df[column] = values: every row gets its value; a column the frame does not
\* have yet is appended
WithColumn(df, column, values) ==
    [df EXCEPT !.columns = IF \E j \in 1..Len(df.columns) : df.columns[j] = column
                           THEN df.columns ELSE Append(df.columns, column),
               !.rows = [i \in 1..Len(df.rows) |-> (column :> values[i]) @@ df.rows[i]]]

\* the market size as a share of the total population, not of the largest
MarketAnalyzer_calculate_metrics_share_of_total(df) ==
    Local([df1 \in {WithColumn(df, "people_per_charger",
                [i \in 1..Len(df.rows) |->
                    FDiv[FromInt[df.rows[i].population], FromInt[df.rows[i].chargers]]])} |->
    Local([df2 \in {WithColumn(df1, "chargers_per_100k",
                [i \in 1..Len(df1.rows) |->
                    FMul[FDiv[FromInt[df1.rows[i].chargers], FromInt[df1.rows[i].population]],
                         FromInt[100000]]])} |->
    Local([population_max \in {FromInt[IntSum[Column(df2, "population")]]} |->
    Local([df3 \in {WithColumn(df2, "market_size_score",
                [i \in 1..Len(df2.rows) |->
                    FMul[FDiv[FromInt[df2.rows[i].population], population_max],
                         FromInt[100]]])} |->
    Local([avg_chargers_per_100k \in
               {FMul[FDiv[FromInt[IntSum[Column(df3, "chargers")]],
                          FromInt[IntSum[Column(df3, "population")]]],
                     FromInt[100000]]} |->
    Local([df4 \in {WithColumn(df3, "coverage_gap",
                [i \in 1..Len(df3.rows) |->
                    FSub[df3.rows[i].chargers_per_100k, avg_chargers_per_100k]])} |->
        WithColumn(df4, "opportunity_score",
            [i \in 1..Len(df4.rows) |->
                FMul[FMul[FDiv[df4.rows[i].market_size_score, FromInt[100]],
                          FDiv[FromInt[1],
                               FDiv[df4.rows[i].chargers_per_100k, avg_chargers_per_100k]]],
                     FromInt[100]]])])])])])])])

MarketAnalyzer_calculate_metrics(df) ==
    Local([df1 \in {WithColumn(df, "people_per_charger",
                [i \in 1..Len(df.rows) |->
                    FDiv[FromInt[df.rows[i].population], FromInt[df.rows[i].chargers]]])} |->
    Local([df2 \in {WithColumn(df1, "chargers_per_100k",
                [i \in 1..Len(df1.rows) |->
                    FMul[FDiv[FromInt[df1.rows[i].chargers], FromInt[df1.rows[i].population]],
                         FromInt[100000]]])} |->
    Local([population_max \in {FromInt[IntMax[Column(df2, "population")]]} |->
    Local([df3 \in {WithColumn(df2, "market_size_score",
                [i \in 1..Len(df2.rows) |->
                    FMul[FDiv[FromInt[df2.rows[i].population], population_max],
                         FromInt[100]]])} |->
    Local([avg_chargers_per_100k \in
               {FMul[FDiv[FromInt[IntSum[Column(df3, "chargers")]],
                          FromInt[IntSum[Column(df3, "population")]]],
                     FromInt[100000]]} |->
    Local([df4 \in {WithColumn(df3, "coverage_gap",
                [i \in 1..Len(df3.rows) |->
                    FSub[df3.rows[i].chargers_per_100k, avg_chargers_per_100k]])} |->
        WithColumn(df4, "opportunity_score",
            [i \in 1..Len(df4.rows) |->
                FMul[FMul[FDiv[df4.rows[i].market_size_score, FromInt[100]],
                          FDiv[FromInt[1],
                               FDiv[df4.rows[i].chargers_per_100k, avg_chargers_per_100k]]],
                     FromInt[100]]])])])])])])])

\* MarketAnalyzer(): __init__
MarketAnalyzer(metro_areas) ==
    [df |-> MarketAnalyzer_calculate_metrics(MarketAnalyzer_create_dataframe(metro_areas))]

\* order with position i put behind the positions whose key is not smaller
InsertDescending[order \in Seq(Nat), keys \in Seq(F64), i \in Nat] ==
    SubSeq(order, 1, Cardinality({p \in 1..Len(order) : FCmp[keys[order[p]], keys[i]] >= 0}))
    \o <<i>>
    \o SubSeq(order, Cardinality({p \in 1..Len(order) : FCmp[keys[order[p]], keys[i]] >= 0}) + 1,
              Len(order))

\* the positions 1..n of keys by descending key, equal keys in their given order
ArgsortDescending[keys \in Seq(F64), n \in Nat] ==
    IF n = 0 THEN <<>> ELSE InsertDescending[ArgsortDescending[keys, n - 1], keys, n]

\* df.iloc[order]
TakeRows(df, order) ==
    [df EXCEPT !.index = [k \in 1..Len(order) |-> df.index[order[k]]],
               !.rows  = [k \in 1..Len(order) |-> df.rows[order[k]]]]

\* DataFrame.nlargest(n, column), keep='first': the first n rows of the frame
\* sorted by descending column, rows with equal values in their original order
nlargest(df, n, column) ==
    Local([order \in {ArgsortDescending[Column(df, column), Len(df.rows)]} |->
        TakeRows(df, SubSeq(order, 1, IF n < Len(order) THEN n ELSE Len(order)))])

\* df[[columns]]
Select(df, columns) ==
    [df EXCEPT !.columns = columns,
               !.rows = [k \in 1..Len(df.rows) |->
                            [c \in {columns[j] : j \in 1..Len(columns)} |-> df.rows[k][c]]]]

\* df.head(n): the first n rows as the dataset lists them, not ranked
get_top_opportunities_unranked(self, n) ==
    Select(TakeRows(self.df, [k \in 1..n |-> k]),
           <<"city", "state", "population", "chargers", "people_per_charger",
             "chargers_per_100k", "coverage_gap", "opportunity_score">>)

get_top_opportunities(self, n) ==
    Select(nlargest(self.df, n, "opportunity_score"),
           <<"city", "state", "population", "chargers", "people_per_charger",
             "chargers_per_100k", "coverage_gap", "opportunity_score">>)

get_oversaturated_markets(self, n) ==
    Select(nlargest(self.df, n, "chargers_per_100k"),
           <<"city", "state", "population", "chargers", "people_per_charger",
             "chargers_per_100k", "coverage_gap">>)

\* Series.mean() of a float64 column, summed in row order
Mean(s) == FDiv[SumL[s], FromInt[Len(s)]]

\* Series.median() of a float64 column
Median(s) ==
    Local([order \in {ArgsortDescending[s, Len(s)]} |->
        IF Len(s) % 2 = 1 THEN s[order[(Len(s) + 1) \div 2]]
        ELSE FDiv[FAdd[s[order[Len(s) \div 2]], s[order[Len(s) \div 2 + 1]]], FromInt[2]]])

\* the average density taken as the mean of the records' densities
get_national_stats_mean_of_densities(self) ==
    [total_population          |-> IntSum[Column(self.df, "population")],
     total_chargers            |-> IntSum[Column(self.df, "chargers")],
     avg_chargers_per_100k     |-> Mean(Column(self.df, "chargers_per_100k")),
     avg_people_per_charger    |-> Mean(Column(self.df, "people_per_charger")),
     median_people_per_charger |-> Median(Column(self.df, "people_per_charger")),
     cities_analyzed           |-> Len(self.df.rows)]

get_national_stats(self) ==
    [total_population          |-> IntSum[Column(self.df, "population")],
     total_chargers            |-> IntSum[Column(self.df, "chargers")],
     avg_chargers_per_100k     |->
         FMul[FDiv[FromInt[IntSum[Column(self.df, "chargers")]],
                   FromInt[IntSum[Column(self.df, "population")]]],
              FromInt[100000]],
     avg_people_per_charger    |-> Mean(Column(self.df, "people_per_charger")),
     median_people_per_charger |-> Median(Column(self.df, "people_per_charger")),
     cities_analyzed           |-> Len(self.df.rows)]

\* DataFrame.copy(): a new object with the contents of df.  A returned frame
\* is [object, value]: which object it is, and its contents
DataFrame_copy(df) == [object |-> "copy", value |-> df]

\* the analyzer's own table returned, not a copy of it
get_market_data_returning_self_df(self) == [object |-> "self.df", value |-> self.df]

get_market_data(self) == DataFrame_copy(self.df)

\* changes a caller can make to a frame it holds, in place: a cell assigned
\* (df.loc[label, 'chargers'] = 0), a column assigned (df['opportunity_score']
\* = 0.0), the last row dropped (df.drop(..., inplace=True))
InPlaceChanges(df) ==
    {[df EXCEPT !.rows[1].chargers = 0],
     [df EXCEPT !.rows = [k \in 1..Len(df.rows) |->
                             [df.rows[k] EXCEPT !.opportunity_score = Zero]]],
     [df EXCEPT !.index = SubSeq(df.index, 1, Len(df.index) - 1),
                !.rows  = SubSeq(df.rows, 1, Len(df.rows) - 1)]}

\* order with position i put behind the positions whose key is not larger
InsertAscending[order \in Seq(Nat), keys \in Seq(F64), i \in Nat] ==
    SubSeq(order, 1, Cardinality({p \in 1..Len(order) : FCmp[keys[order[p]], keys[i]] <= 0}))
    \o <<i>>
    \o SubSeq(order, Cardinality({p \in 1..Len(order) : FCmp[keys[order[p]], keys[i]] <= 0}) + 1,
              Len(order))

\* the positions 1..n of keys by ascending key, equal keys in their given order
ArgsortAscending[keys \in Seq(F64), n \in Nat] ==
    IF n = 0 THEN <<>> ELSE InsertAscending[ArgsortAscending[keys, n - 1], keys, n]

\* DataFrame.nsmallest(n, column), keep='first'
nsmallest(df, n, column) ==
    Local([order \in {ArgsortAscending[Column(df, column), Len(df.rows)]} |->
        TakeRows(df, SubSeq(order, 1, IF n < Len(order) THEN n ELSE Len(order)))])

\* the markets ranked by opportunity score, the largest first
get_underserved_markets_by_opportunity(self, n) ==
    Select(nlargest(self.df, n, "opportunity_score"),
           <<"city", "state", "population", "chargers", "people_per_charger",
             "chargers_per_100k", "coverage_gap", "opportunity_score">>)

get_underserved_markets(self, n) ==
    Select(nsmallest(self.df, n, "chargers_per_100k"),
           <<"city", "state", "population", "chargers", "people_per_charger",
             "chargers_per_100k", "coverage_gap", "opportunity_score">>)

\* the bands closed at the thresholds: a gap of exactly -0.5 or 0.5 is not
\* Balanced
classify_market_closed_bands(self, city, state) ==
    Local([market \in {SelectSeq(self.df.rows,
                           LAMBDA row : row.city = city /\ row.state = state)} |->
        IF market = <<>> THEN "Unknown"
        ELSE IF FLe(market[1].coverage_gap, FNeg[Dec[5, 10]])
             THEN "Underserved (High Opportunity)"
        ELSE IF FCmp[market[1].coverage_gap, Dec[5, 10]] >= 0 THEN "Oversaturated"
        ELSE "Balanced"])

\* the first row of the frame for the city, classified by its coverage_gap
classify_market(self, city, state) ==
    Local([market \in {SelectSeq(self.df.rows,
                           LAMBDA row : row.city = city /\ row.state = state)} |->
        IF market = <<>> THEN "Unknown"
        ELSE IF FLt(market[1].coverage_gap, FNeg[Dec[5, 10]])
             THEN "Underserved (High Opportunity)"
        ELSE IF FGt(market[1].coverage_gap, Dec[5, 10]) THEN "Oversaturated"
        ELSE "Balanced"])

\* the dict regions of get_regional_analysis, in the order it is written
regions ==
    <<<<"Northeast", {"NY", "PA", "MA", "MD", "DC"}>>,
      <<"Southeast", {"FL", "GA", "NC", "SC", "TN", "KY", "LA", "AL"}>>,
      <<"Midwest", {"IL", "OH", "MI", "WI", "MN", "MO", "IN", "IA", "ND", "SD", "NE", "KS"}>>,
      <<"Southwest", {"TX", "AZ", "NM", "OK", "AR"}>>,
      <<"West", {"CA", "WA", "OR", "NV", "CO", "UT", "ID", "AK"}>>>>

\* a state that no list names put with the last region, not with 'Other'
get_region_unlisted_in_last(state) ==
    IF \E j \in 1..Len(regions) : state \in regions[j][2]
    THEN regions[CHOOSE j \in 1..Len(regions) :
                     /\ state \in regions[j][2]
                     /\ \A i \in 1..(j - 1) : state \notin regions[i][2]][1]
    ELSE regions[Len(regions)][1]

get_region(state) ==
    IF \E j \in 1..Len(regions) : state \in regions[j][2]
    THEN regions[CHOOSE j \in 1..Len(regions) :
                     /\ state \in regions[j][2]
                     /\ \A i \in 1..(j - 1) : state \notin regions[i][2]][1]
    ELSE "Other"

\* the group keys of groupby('region'), which sorts them
RegionKeys(df) ==
    SelectSeq(<<"Midwest", "Northeast", "Other", "Southeast", "Southwest", "West">>,
              LAMBDA r : \E i \in 1..Len(df.rows) : df.rows[i].region = r)

\* df.groupby('region').agg({'population': 'sum', 'chargers': 'sum',
\* 'city': 'count'}).rename(columns={'city': 'cities'})
GroupByRegion(df) ==
    Local([keys \in {RegionKeys(df)} |->
        [columns |-> <<"population", "chargers", "cities">>,
         index   |-> keys,
         rows    |-> [g \in 1..Len(keys) |->
             Local([group \in {SelectSeq(df.rows, LAMBDA row : row.region = keys[g])} |->
                 [population |-> IntSum[[i \in 1..Len(group) |-> group[i].population]],
                  chargers   |-> IntSum[[i \in 1..Len(group) |-> group[i].chargers]],
                  cities     |-> Len(group)]])]]])

\* get_regional_analysis assigns the column region of self.df and returns the
\* regional frame sorted by descending chargers_per_100k: self is the analyzer
\* as the call leaves it, value what the call returns
get_regional_analysis(self) ==
    Local([df \in {WithColumn(self.df, "region",
                       [i \in 1..Len(self.df.rows) |-> get_region(self.df.rows[i].state)])} |->
    Local([regional \in {GroupByRegion(df)} |->
    Local([regional1 \in {WithColumn(regional, "chargers_per_100k",
                [g \in 1..Len(regional.rows) |->
                    FMul[FDiv[FromInt[regional.rows[g].chargers],
                              FromInt[regional.rows[g].population]],
                         FromInt[100000]]])} |->
    Local([regional2 \in {WithColumn(regional1, "people_per_charger",
                [g \in 1..Len(regional1.rows) |->
                    FDiv[FromInt[regional1.rows[g].population],
                         FromInt[regional1.rows[g].chargers]]])} |->
        [self  |-> [self EXCEPT !.df = df],
         value |-> TakeRows(regional2,
                       ArgsortDescending[Column(regional2, "chargers_per_100k"),
                                         Len(regional2.rows)])]])])])])

(***************************************************************************)
(* The configurations the calculators are constructed with                 *)
(***************************************************************************)
\* stall counts 0..MaxStalls are tried next to the default of 8
MaxStalls == 2

StallChoices == {FromInt[n] : n \in 0..MaxStalls} \cup {FromInt[8]}

ZeroFields(rec) == [f \in DOMAIN rec |-> Zero]

\* (installation, equipment, licensing, operating): the defaults; nothing
\* costs anything; no investment; a refund larger than the investment (cost
\* fields are not validated); no fixed operating cost; other stall counts;
\* amounts that are not round
CostChoices ==
    {<<InstallationCosts, EquipmentCosts, LicensingLegalCosts, AnnualOperatingCosts>>,
     <<ZeroFields(InstallationCosts), [ZeroFields(EquipmentCosts) EXCEPT !.num_stalls = FromInt[8]],
       ZeroFields(LicensingLegalCosts), ZeroFields(AnnualOperatingCosts)>>,
     <<ZeroFields(InstallationCosts), [ZeroFields(EquipmentCosts) EXCEPT !.num_stalls = FromInt[8]],
       ZeroFields(LicensingLegalCosts), AnnualOperatingCosts>>,
     <<[InstallationCosts EXCEPT !.site_preparation = FromInt[-1050000]], EquipmentCosts,
       LicensingLegalCosts, AnnualOperatingCosts>>,
     <<InstallationCosts, EquipmentCosts, LicensingLegalCosts,
       ZeroFields(AnnualOperatingCosts)>>,
     <<[InstallationCosts EXCEPT !.site_preparation = FromInt[50001],
                                 !.labor_costs = FromInt[79999],
                                 !.contingency = FromInt[1]],
       [EquipmentCosts EXCEPT !.charger_unit_cost = FromInt[29999],
                              !.monitoring_systems = FromInt[17777]],
       [LicensingLegalCosts EXCEPT !.legal_fees = FromInt[12345]],
       [AnnualOperatingCosts EXCEPT !.network_connectivity = FromInt[3601],
                                    !.repairs_reserve = FromInt[9999]]>>}
    \cup {<<InstallationCosts, [EquipmentCosts EXCEPT !.num_stalls = n],
            LicensingLegalCosts, AnnualOperatingCosts>> : n \in StallChoices}

\* (peak, standard, off-peak) usage shares as parts of the last component: in
\* percent, as the dashboard's sliders give them, and in eighths, which binary64
\* holds exactly; 40 + 40 + 40 percent does not sum to 1
UsageSplits ==
    {<<25, 60, 15, 100>>, <<30, 50, 20, 100>>, <<10, 20, 70, 100>>, <<100, 0, 0, 100>>,
     <<40, 40, 20, 100>>, <<40, 40, 40, 100>>, <<2, 5, 1, 8>>}

WithUsage(rev, u) ==
    [rev EXCEPT !.peak_usage_percent     = Dec[u[1], u[4]],
                !.standard_usage_percent = Dec[u[2], u[4]],
                !.off_peak_usage_percent = Dec[u[3], u[4]]]

\* the usage splits at every stall count; no utilization and full
\* utilization; a standard price of 0; no members, no idle fees and
\* multipliers of 1
RevenueChoices ==
    {WithUsage([RevenueParameters EXCEPT !.num_stalls = n], u) :
        n \in StallChoices, u \in UsageSplits}
    \cup {[RevenueParameters EXCEPT !.utilization_rate = Zero],
          [RevenueParameters EXCEPT !.utilization_rate = FromInt[1]],
          [RevenueParameters EXCEPT !.standard_price = Zero],
          [RevenueParameters EXCEPT !.weekday_multiplier = FromInt[1],
                                    !.weekend_multiplier = FromInt[1],
                                    !.summer_multiplier = FromInt[1],
                                    !.winter_multiplier = FromInt[1],
                                    !.percent_members = Zero,
                                    !.idle_fee_occurrence_rate = Zero]}

\* arguments of the legacy calculator: stall count, investment (default, none,
\* negative), fixed costs (default, none) and utilization (default, none)
LegacyChoices ==
    {[LegacyDefaults EXCEPT !.num_stalls = n,
                            !.equipment_cost_per_stall = inv[1],
                            !.installation_cost = inv[2],
                            !.permitting_fees = inv[3],
                            !.land_lease_annual = fix[1],
                            !.maintenance_annual = fix[2],
                            !.utilization_rate = u] :
        n \in StallChoices,
        inv \in {<<FromInt[35000], FromInt[100000], FromInt[25000]>>,
                 <<Zero, Zero, Zero>>,
                 <<FromInt[35000], FromInt[-500000], FromInt[25000]>>},
        fix \in {<<FromInt[24000], FromInt[15000]>>, <<Zero, Zero>>},
        u \in {Dec[70, 100], Zero}}

\* the enhanced calculator given what the legacy calculator is given: each
\* cost under one heading, one price and one electricity rate for the three
\* tiers, usage shares u, no members, no idle fees, multipliers of 1
NeutralParameters(args, u) ==
    <<<<[ZeroFields(InstallationCosts) EXCEPT !.site_preparation = args.installation_cost],
        [ZeroFields(EquipmentCosts) EXCEPT !.num_stalls = args.num_stalls,
                                           !.charger_unit_cost = args.equipment_cost_per_stall],
        [ZeroFields(LicensingLegalCosts) EXCEPT !.business_licenses = args.permitting_fees],
        [ZeroFields(AnnualOperatingCosts) EXCEPT !.land_lease_rent = args.land_lease_annual,
                                                 !.maintenance_contract = args.maintenance_annual]>>,
      WithUsage([RevenueParameters EXCEPT
                     !.num_stalls = args.num_stalls,
                     !.peak_price = args.charging_price_kwh,
                     !.standard_price = args.charging_price_kwh,
                     !.off_peak_price = args.charging_price_kwh,
                     !.electricity_rate_peak = args.electricity_rate_kwh,
                     !.electricity_rate_standard = args.electricity_rate_kwh,
                     !.electricity_rate_off_peak = args.electricity_rate_kwh,
                     !.avg_kwh_per_session = args.avg_kwh_per_session,
                     !.sessions_per_stall_per_day = args.sessions_per_stall_per_day,
                     !.utilization_rate = args.utilization_rate,
                     !.percent_members = Zero,
                     !.idle_fee_occurrence_rate = Zero,
                     !.weekday_multiplier = FromInt[1],
                     !.weekend_multiplier = FromInt[1],
                     !.summer_multiplier = FromInt[1],
                     !.winter_multiplier = FromInt[1],
                     !.spring_fall_multiplier = FromInt[1]], u)>>

\* the legacy defaults at every stall count, at the default and at full
\* utilization, with usage shares in percent and in eighths
NeutralChoices ==
    {NeutralParameters([LegacyDefaults EXCEPT !.num_stalls = n, !.utilization_rate = util], u) :
        n \in StallChoices, util \in {Dec[70, 100], FromInt[1]},
        u \in {<<25, 60, 15, 100>>, <<2, 5, 1, 8>>}}

\* (costs, revenue) an enhanced calculator is constructed from
EnhancedChoices == (CostChoices \X RevenueChoices) \cup NeutralChoices

(***************************************************************************)
(* The program as state machines.  Spec: a calculator is constructed, its  *)
(* report is generated and rendered.  SpecMarket: the market analyzer is   *)
(* queried, one call at a time; result is the value the call in progress   *)
(* returns.                                                                *)
(***************************************************************************)
\* report is the report of the latest call and calls the number of reports the
\* calculator has returned, at most MaxReports; result is what a rendering of
\* the report shows, and a run renders after the reports it asks for
MaxReports == 2

NoReport == [status |-> "none"]

Returned(r) == [status |-> "returned", value |-> r]

\* the call ended with an uncaught ZeroDivisionError
RaisedZeroDivision == [status |-> "raised"]

NoResult == [op |-> "none"]

\* an object that is not constructed
None == "None"

\* main() of calculator_enhanced.py: EnhancedSuperchargerCalculator()
Init ==
    /\ calc = EnhancedSuperchargerCalculator(InstallationCosts, EquipmentCosts,
                  LicensingLegalCosts, AnnualOperatingCosts, RevenueParameters)
    /\ report = NoReport
    /\ calls = 0
    /\ analyzer = None
    /\ result = NoResult

\* a run constructs its calculator before it asks anything of one (app.py
\* constructs one per run of the script, from the sidebar's inputs)
NewEnhancedCalculator ==
    /\ report = NoReport /\ result = NoResult
    /\ \E args \in EnhancedChoices :
           calc' = EnhancedSuperchargerCalculator(args[1][1], args[1][2], args[1][3],
                       args[1][4], args[2])
    /\ report' = NoReport
    /\ calls' = 0
    /\ result' = NoResult
    /\ UNCHANGED analyzer

NewLegacyCalculator ==
    /\ report = NoReport /\ result = NoResult
    /\ \E args \in LegacyChoices : calc' = SuperchargerProfitabilityCalculator(args)
    /\ report' = NoReport
    /\ calls' = 0
    /\ result' = NoResult
    /\ UNCHANGED analyzer

\* the off-peak usage share overwritten with what the other two leave of 1
\* before the report is computed
GenerateComprehensiveReport_normalising_in_place ==
    /\ calc.kind = "enhanced"
    /\ calls < MaxReports /\ result = NoResult
    /\ calls' = calls + 1
    /\ \E float \in {Binary64} :
       \E self \in {[calc EXCEPT !.revenue.off_peak_usage_percent =
                        float.sub[float.sub[float.of[1], calc.revenue.peak_usage_percent],
                                  calc.revenue.standard_usage_percent]]} :
       \E r \in {generate_comprehensive_report(self, float)} :
           /\ calc' = self
           /\ report' = IF Raises(r) THEN RaisedZeroDivision ELSE Returned(r)
    /\ result' = NoResult
    /\ UNCHANGED analyzer

GenerateComprehensiveReport ==
    /\ calc.kind = "enhanced"
    /\ calls < MaxReports /\ result = NoResult
    /\ calls' = calls + 1
    /\ \E float \in {Binary64} : \E r \in {generate_comprehensive_report(calc, float)} :
           report' = IF Raises(r) THEN RaisedZeroDivision ELSE Returned(r)
    /\ result' = NoResult
    /\ UNCHANGED <<calc, analyzer>>

GenerateReport ==
    /\ calc.kind = "legacy"
    /\ calls < MaxReports /\ result = NoResult
    /\ calls' = calls + 1
    /\ \E float \in {Binary64} : report' = Returned(generate_report(calc, float))
    /\ result' = NoResult
    /\ UNCHANGED <<calc, analyzer>>

\* main(): calculator.print_report() on the calculator it has constructed
PrintReport ==
    /\ calc.kind = "enhanced"
    /\ report = NoReport /\ result = NoResult
    /\ \E float \in {Binary64} : result' = print_report(calc, float)
    /\ UNCHANGED <<calc, report, calls, analyzer>>

LegacyPrintReport ==
    /\ calc.kind = "legacy"
    /\ report = NoReport /\ result = NoResult
    /\ \E float \in {Binary64} : result' = Legacy_print_report(calc, float)
    /\ UNCHANGED <<calc, report, calls, analyzer>>

\* the dashboard shows the Overview tab of the report it generated
OverviewTab ==
    /\ calc.kind = "enhanced"
    /\ report.status = "returned"
    /\ result' = tab1(report.value)
    /\ UNCHANGED <<calc, report, calls, analyzer>>

\* the dashboard builds the chart of the Projections tab
ProjectionsTab ==
    /\ calc.kind = "enhanced"
    /\ report.status = "returned"
    /\ result' = tab3(report.value)
    /\ UNCHANGED <<calc, report, calls, analyzer>>

\* the dashboard builds the downloads of the Export Report tab
ExportTab ==
    /\ calc.kind = "enhanced"
    /\ report.status = "returned"
    /\ result' = tab6(report.value)
    /\ UNCHANGED <<calc, report, calls, analyzer>>

Next ==
    \/ NewEnhancedCalculator
    \/ NewLegacyCalculator
    \/ GenerateComprehensiveReport
    \/ GenerateReport
    \/ PrintReport
    \/ LegacyPrintReport
    \/ OverviewTab
    \/ ProjectionsTab
    \/ ExportTab

Spec == Init /\ [][Next]_vars

\* the list as the source writes it; the list with one record entered twice
\* (records 3, 1, 3, 2 and 61), where two rows have the same scores; and a list
\* of two markets of 100,000 people with 2 chargers and 1, whose densities 2.0
\* and 1.0 are exactly 0.5 above and below the average 1.5
MetroAreaLists ==
    {US_METRO_AREAS,
     <<US_METRO_AREAS[3], US_METRO_AREAS[1], US_METRO_AREAS[3], US_METRO_AREAS[2],
       US_METRO_AREAS[61]>>,
     <<<<"New York", "NY", "40.7128", "-74.0060", 100000, 2>>,
       <<"Los Angeles", "CA", "34.0522", "-118.2437", 100000, 1>>>>}

\* the __main__ block of market_analysis.py: MarketAnalyzer()
InitMarket ==
    /\ calc = None
    /\ report = NoReport
    /\ calls = 0
    /\ analyzer \in {MarketAnalyzer(metro_areas) : metro_areas \in MetroAreaLists}
    /\ result = NoResult

GetTopOpportunities ==
    /\ result = NoResult
    /\ \E n \in 1..Len(analyzer.df.rows) :
           result' = [op |-> "get_top_opportunities", n |-> n,
                      value |-> get_top_opportunities(analyzer, n)]
    /\ UNCHANGED <<calc, report, calls, analyzer>>

GetOversaturatedMarkets ==
    /\ result = NoResult
    /\ \E n \in 1..Len(analyzer.df.rows) :
           result' = [op |-> "get_oversaturated_markets", n |-> n,
                      value |-> get_oversaturated_markets(analyzer, n)]
    /\ UNCHANGED <<calc, report, calls, analyzer>>

GetNationalStats ==
    /\ result = NoResult
    /\ result' = [op |-> "get_national_stats", value |-> get_national_stats(analyzer)]
    /\ UNCHANGED <<calc, report, calls, analyzer>>

GetMarketData ==
    /\ result = NoResult
    /\ \E market_data \in {get_market_data(analyzer)} :
           result' = [op |-> "get_market_data", object |-> market_data.object,
                      value |-> market_data.value, changed |-> FALSE]
    /\ UNCHANGED <<calc, report, calls, analyzer>>

\* the caller changes the table it was returned, in place; the change is to
\* the object, so it shows in self.df exactly when that is the object returned
CallerChangesMarketData ==
    /\ result.op = "get_market_data"
    /\ ~result.changed
    /\ \E df \in InPlaceChanges(result.value) :
           /\ result' = [result EXCEPT !.value = df, !.changed = TRUE]
           /\ analyzer' = IF result.object = "self.df" THEN [analyzer EXCEPT !.df = df]
                          ELSE analyzer
    /\ UNCHANGED <<calc, report, calls>>

GetUnderservedMarkets ==
    /\ result = NoResult
    /\ \E n \in 1..Len(analyzer.df.rows) :
           result' = [op |-> "get_underserved_markets", n |-> n,
                      value |-> get_underserved_markets(analyzer, n)]
    /\ UNCHANGED <<calc, report, calls, analyzer>>

\* markets asked about: an underserved, a balanced and an oversaturated one of
\* the list as written, the last record, and a city that is not listed
MarketChoices ==
    {<<"New York", "NY">>, <<"Los Angeles", "CA">>, <<"San Jose", "CA">>,
     <<US_METRO_AREAS[61][1], US_METRO_AREAS[61][2]>>, <<"Springfield", "XX">>}

ClassifyMarket ==
    /\ result = NoResult
    /\ \E market \in MarketChoices :
           result' = [op |-> "classify_market", city |-> market[1], state |-> market[2],
                      value |-> classify_market(analyzer, market[1], market[2])]
    /\ UNCHANGED <<calc, report, calls, analyzer>>

GetRegionalAnalysis ==
    /\ result = NoResult
    /\ \E r \in {get_regional_analysis(analyzer)} :
           /\ analyzer' = r.self
           /\ result' = [op |-> "get_regional_analysis", value |-> r.value]
    /\ UNCHANGED <<calc, report, calls>>

\* the caller is done with the returned value
ResultConsumed ==
    /\ result # NoResult
    /\ result' = NoResult
    /\ UNCHANGED <<calc, report, calls, analyzer>>

NextMarket ==
    \/ GetTopOpportunities
    \/ GetOversaturatedMarkets
    \/ GetNationalStats
    \/ GetMarketData
    \/ CallerChangesMarketData
    \/ GetUnderservedMarkets
    \/ ClassifyMarket
    \/ GetRegionalAnalysis
    \/ ResultConsumed

SpecMarket == InitMarket /\ [][NextMarket]_vars

(***************************************************************************)
(* Properties of the reports                                               *)
(***************************************************************************)
EnhancedReturned == calc.kind = "enhanced" /\ report.status = "returned"

LegacyReturned == calc.kind = "legacy" /\ report.status = "returned"

\* the figures both kinds of report hold, under their keys in each
ReportedProfit == report.value.annual_profit

ReportedInvestment ==
    IF calc.kind = "enhanced" THEN report.value.initial_investment.total
    ELSE report.value.initial_investment

ReportedRoi ==
    IF calc.kind = "enhanced" THEN report.value.roi_metrics.roi_percentage
    ELSE report.value.roi_percentage

ReportedPayback ==
    IF calc.kind = "enhanced" THEN report.value.roi_metrics.payback_period_years
    ELSE report.value.payback_period_years

\* the total initial investment of the calculator, whether or not a report
\* could be generated
TotalInitialInvestment ==
    IF calc.kind = "enhanced" THEN calculate_total_initial_investment(calc, Binary64).total
    ELSE calculate_initial_investment(calc, Binary64)

\* C1: in every report generate_comprehensive_report returns, annual_profit is
\* total_revenue minus total_annual_costs (the binary64 difference of the two
\* reported figures), total_annual_costs is the reported electricity cost plus
\* the reported fixed operating cost, and the electricity cost is the total of
\* the electricity breakdown.
C1_AnnualProfitIsRevenueMinusCosts ==
    EnhancedReturned =>
        /\ report.value.annual_profit =
               FSub[report.value.annual_revenue.total_revenue,
                    report.value.annual_costs.total_annual_costs]
        /\ report.value.annual_costs.total_annual_costs =
               FAdd[report.value.annual_costs.electricity_costs,
                    report.value.annual_costs.fixed_operating_costs]
        /\ report.value.annual_costs.electricity_costs =
               report.value.electricity_breakdown.total_electricity_cost

\* a returned report with revenue, an electricity bill and fixed costs, and a
\* loss: the profit is none of the three
C1_Witness ==
    /\ EnhancedReturned
    /\ FGt(report.value.annual_revenue.total_revenue, Zero)
    /\ FGt(report.value.annual_costs.electricity_costs, Zero)
    /\ FGt(report.value.annual_costs.fixed_operating_costs, Zero)
    /\ FLt(report.value.annual_profit, Zero)

\* C2: in every report of either calculator, payback_period_years is the
\* infinite sentinel when annual_profit <= 0, exactly 0 included, and is
\* initial_investment / annual_profit when annual_profit > 0.
C2_PaybackNeverOrInvestmentOverProfit ==
    report.status = "returned" =>
        IF FLe(ReportedProfit, Zero) THEN ReportedPayback = Inf
        ELSE ReportedPayback = FDiv[ReportedInvestment, ReportedProfit]

\* a legacy report with a profit of exactly 0 and an investment to recover
C2_Witness ==
    /\ LegacyReturned
    /\ IsZero(ReportedProfit)
    /\ FGt(ReportedInvestment, Zero)
    /\ ReportedPayback = Inf

\* C3: when the total initial investment is exactly 0, generating the report
\* raises no error and the reported roi_percentage is 0.
C3_ZeroInvestmentRoiIsZeroWithoutError ==
    (report.status # "none" /\ IsZero(TotalInitialInvestment)) =>
        /\ report.status = "returned"
        /\ ReportedRoi = Zero

\* C4: whenever the reported total initial investment is not exactly 0, be it
\* negative, roi_percentage is annual_profit / initial_investment * 100.
C4_RoiIsProfitOverInvestment ==
    (report.status = "returned" /\ ~IsZero(ReportedInvestment)) =>
        ReportedRoi = FMul[FDiv[ReportedProfit, ReportedInvestment], FromInt[100]]

\* C5: in every report, the cumulative profits are annual_profit * 5 (or 10)
\* minus the initial investment, with no clamping of a zero or negative profit.
C5_CumulativeProfitIsLinear ==
    /\ EnhancedReturned =>
           /\ report.value.roi_metrics.year_5_cumulative_profit =
                  FSub[FMul[ReportedProfit, FromInt[5]], ReportedInvestment]
           /\ report.value.roi_metrics.year_10_cumulative_profit =
                  FSub[FMul[ReportedProfit, FromInt[10]], ReportedInvestment]
    /\ LegacyReturned =>
           report.value.five_year_profit =
               FSub[FMul[ReportedProfit, FromInt[5]], ReportedInvestment]

\* a legacy report with a loss: five years of it are below minus the investment
C5_Witness ==
    /\ LegacyReturned
    /\ FLt(ReportedProfit, Zero)
    /\ FGt(ReportedInvestment, Zero)
    /\ FLt(report.value.five_year_profit, FNeg[ReportedInvestment])

\* the integer a significand stands for, and the whole number a binary64
\* value holds
BToInt[a \in Big] == IF a = <<>> THEN 0 ELSE a[1] + Base * BToInt[Tail(a)]

IntOf(a) == IF a.m = <<>> THEN 0 ELSE a.sg * BToInt[BShr[a.m, -a.e]]

IsWhole(a) == a.k = "num" /\ a.e <= 0 /\ FromInt[IntOf(a)] = a

\* the sums of the declared fields of each group, in exact integer arithmetic
InstallationFieldSum ==
    IntOf(calc.installation.site_preparation)
    + IntOf(calc.installation.electrical_infrastructure)
    + IntOf(calc.installation.concrete_construction)
    + IntOf(calc.installation.labor_costs)
    + IntOf(calc.installation.permitting_inspections)
    + IntOf(calc.installation.environmental_compliance)
    + IntOf(calc.installation.contingency)

EquipmentFieldSum ==
    IntOf(calc.equipment.charger_unit_cost) * IntOf(calc.equipment.num_stalls)
    + IntOf(calc.equipment.transformer_cost)
    + IntOf(calc.equipment.switchgear_cost)
    + IntOf(calc.equipment.cabling_materials)
    + IntOf(calc.equipment.canopy_shelter)
    + IntOf(calc.equipment.signage_lighting)
    + IntOf(calc.equipment.payment_systems)
    + IntOf(calc.equipment.monitoring_systems)

LicensingFieldSum ==
    IntOf(calc.licensing.business_licenses)
    + IntOf(calc.licensing.environmental_permits)
    + IntOf(calc.licensing.legal_fees)
    + IntOf(calc.licensing.insurance_setup)
    + IntOf(calc.licensing.trademark_branding)

OperatingFieldSum ==
    IntOf(calc.operating.land_lease_rent)
    + IntOf(calc.operating.property_taxes)
    + IntOf(calc.operating.business_taxes)
    + IntOf(calc.operating.insurance_annual)
    + IntOf(calc.operating.maintenance_contract)
    + IntOf(calc.operating.cleaning_upkeep)
    + IntOf(calc.operating.security_monitoring)
    + IntOf(calc.operating.network_connectivity)
    + IntOf(calc.operating.software_management_fees)
    + IntOf(calc.operating.utilities_non_charging)
    + IntOf(calc.operating.repairs_reserve)

\* every cost field and the stall count is a whole number that is not negative
WholeNonNegativeCosts ==
    \A group \in {calc.installation, calc.equipment, calc.licensing, calc.operating} :
        \A f \in DOMAIN group : IsWhole(group[f]) /\ FLe(Zero, group[f])

SharesSumToOne ==
    SumL[<<calc.revenue.peak_usage_percent, calc.revenue.standard_usage_percent,
           calc.revenue.off_peak_usage_percent>>] = FromInt[1]

\* C7: whenever the usage shares sum to 1, the reported peak, standard and
\* off-peak sessions add up to the reported total_sessions.
C7_TierSessionsSumToTotal ==
    (EnhancedReturned /\ SharesSumToOne) =>
        SumL[<<report.value.sessions_breakdown.peak_sessions,
               report.value.sessions_breakdown.standard_sessions,
               report.value.sessions_breakdown.off_peak_sessions>>]
            = report.value.sessions_breakdown.total_sessions

\* every cost field and the stall counts are the declared defaults
DefaultCosts ==
    /\ calc.installation = InstallationCosts
    /\ calc.equipment = EquipmentCosts
    /\ calc.licensing = LicensingLegalCosts
    /\ calc.revenue.num_stalls = RevenueParameters.num_stalls

\* C10 as claimed: with the default costs the installation total is $410,000,
\* the licensing total $33,000, the equipment total the charger cost times 8
\* stalls plus the fixed equipment fields, and the total investment their sum.
C10_DefaultInstallationIs410000 ==
    (EnhancedReturned /\ DefaultCosts) =>
        /\ report.value.initial_investment.installation = FromInt[410000]
        /\ report.value.initial_investment.licensing_legal = FromInt[33000]
        /\ report.value.initial_investment.equipment = FromInt[30000 * 8 + 230000]
        /\ report.value.initial_investment.total =
               FromInt[410000 + (30000 * 8 + 230000) + 33000]

\* C10 as the code has it: with the default costs the installation total is
\* $385,000, the licensing total $33,000, the equipment total $30,000 times 8
\* stalls plus the $230,000 of fixed equipment fields, and the total initial
\* investment their sum, $888,000.
C10_DefaultInvestmentIs888000 ==
    (EnhancedReturned /\ DefaultCosts) =>
        /\ report.value.initial_investment.installation = FromInt[385000]
        /\ report.value.initial_investment.licensing_legal = FromInt[33000]
        /\ report.value.initial_investment.equipment = FromInt[30000 * 8 + 230000]
        /\ report.value.initial_investment.total =
               FromInt[385000 + (30000 * 8 + 230000) + 33000]

\* the report of the calculator that main() constructs
C10_Witness ==
    /\ EnhancedReturned
    /\ calc = EnhancedSuperchargerCalculator(InstallationCosts, EquipmentCosts,
                  LicensingLegalCosts, AnnualOperatingCosts, RevenueParameters)
    /\ report.value.initial_investment.total = FromInt[888000]

(***************************************************************************)
(* Properties of the market analyzer                                       *)
(***************************************************************************)
\* the opportunity score of the dataset's row with index label l
ScoreOf(l) == analyzer.df.rows[l + 1].opportunity_score

\* row a comes before row b in the stable descending sort by opportunity_score
RanksBefore(a, b) ==
    \/ FCmp[ScoreOf(a), ScoreOf(b)] > 0
    \/ FCmp[ScoreOf(a), ScoreOf(b)] = 0 /\ a < b

\* C8: get_top_opportunities(N), 1 <= N <= dataset size, returns N rows of the
\* dataset, projected on the eight reported columns, that are the first N of
\* the stable descending sort by opportunity_score: scores do not increase
\* along the result, rows with equal scores keep their dataset order, and every
\* row left out ranks behind every row returned.
C8_TopOpportunitiesAreStableDescendingHead ==
    result.op = "get_top_opportunities" =>
        /\ Len(result.value.rows) = result.n
        /\ Len(result.value.index) = result.n
        /\ \A k \in 1..result.n :
               /\ result.value.index[k] \in 0..(Len(analyzer.df.rows) - 1)
               /\ DOMAIN result.value.rows[k] =
                      {"city", "state", "population", "chargers", "people_per_charger",
                       "chargers_per_100k", "coverage_gap", "opportunity_score"}
               /\ \A c \in DOMAIN result.value.rows[k] :
                      result.value.rows[k][c] =
                          analyzer.df.rows[result.value.index[k] + 1][c]
        /\ \A j, k \in 1..result.n :
               j < k =>
                   /\ FCmp[result.value.rows[j].opportunity_score,
                           result.value.rows[k].opportunity_score] >= 0
                   /\ RanksBefore(result.value.index[j], result.value.index[k])
        /\ \A l \in 0..(Len(analyzer.df.rows) - 1) :
               l \notin {result.value.index[k] : k \in 1..result.n} =>
                   \A k \in 1..result.n :
                       /\ FCmp[result.value.rows[k].opportunity_score, ScoreOf(l)] >= 0
                       /\ RanksBefore(result.value.index[k], l)

\* a ranking that ends with two rows of the same score, rows 0 and 2 of the
\* dataset in that order, behind rows with higher scores and before the row
\* left out
C8_Witness ==
    /\ result.op = "get_top_opportunities"
    /\ result.n = 4
    /\ result.n < Len(analyzer.df.rows)
    /\ result.value.index[3] = 0
    /\ result.value.index[4] = 2
    /\ FCmp[ScoreOf(0), ScoreOf(2)] = 0
    /\ FCmp[ScoreOf(result.value.index[2]), ScoreOf(0)] > 0

\* total chargers / total population * 100000, from the raw columns
NationalAverageDensity ==
    FMul[FDiv[FromInt[IntSum[[i \in 1..Len(analyzer.df.rows) |->
                                 analyzer.df.rows[i].chargers]]],
              FromInt[IntSum[[i \in 1..Len(analyzer.df.rows) |->
                                 analyzer.df.rows[i].population]]]],
         FromInt[100000]]

\* C9: every record's coverage_gap and opportunity_score are computed with
\* the national average density total_chargers / total_population * 100000 of
\* the raw dataset sums (800 chargers for 51,336,959 people in the list as
\* written), and get_national_stats reports that value as avg_chargers_per_100k.
C9_NationalDensityIsFromRawSums ==
    /\ \A i \in 1..Len(analyzer.df.rows) :
           /\ analyzer.df.rows[i].coverage_gap =
                  FSub[analyzer.df.rows[i].chargers_per_100k, NationalAverageDensity]
           /\ analyzer.df.rows[i].opportunity_score =
                  FMul[FMul[FDiv[analyzer.df.rows[i].market_size_score, FromInt[100]],
                            FDiv[FromInt[1],
                                 FDiv[analyzer.df.rows[i].chargers_per_100k,
                                      NationalAverageDensity]]],
                       FromInt[100]]
    /\ result.op = "get_national_stats" =>
           /\ result.value.avg_chargers_per_100k = NationalAverageDensity
           /\ Len(analyzer.df.rows) = Len(US_METRO_AREAS) =>
                  result.value.avg_chargers_per_100k =
                      FMul[FDiv[FromInt[800], FromInt[51336959]], FromInt[100000]]

\* the statistics of the list as written: the reported density is not the mean
\* of the 61 records' densities
C9_Witness ==
    /\ result.op = "get_national_stats"
    /\ result.value.cities_analyzed = 61
    /\ result.value.total_chargers = 800
    /\ result.value.avg_chargers_per_100k = NationalAverageDensity
    /\ result.value.avg_chargers_per_100k # Mean(Column(analyzer.df, "chargers_per_100k"))

\* C11: no query changes the analyzer: its table (rows, columns and derived
\* values) is after every step what it was before, so a query's result does
\* not depend on the queries made before it.
C11_QueriesLeaveAnalyzerUnchanged == [][analyzer' = analyzer]_vars

\* figures that a report holds in two sections, each computed by its own call
SectionsAgree ==
    EnhancedReturned =>
        /\ report.value.annual_revenue.charging_revenue =
               report.value.charging_revenue_detail.total_charging_revenue
        /\ report.value.annual_revenue.idle_fees =
               report.value.additional_revenue.idle_fee_revenue
        /\ report.value.annual_revenue.memberships =
               report.value.additional_revenue.membership_revenue
        /\ report.value.annual_costs.electricity_costs =
               report.value.electricity_breakdown.total_electricity_cost

\* C12: a generation of the comprehensive report leaves the calculator's five
\* configuration records as they were, a second generation on the same
\* calculator ends as the first did (the equal report, or the same error), and
\* the sections of a report agree on the figures they share.
C12_ReportGenerationIsPure ==
    [][(calc.kind = "enhanced" /\ report'.status # "none") =>
           /\ calc' = calc
           /\ report.status # "none" => report' = report
           /\ SectionsAgree']_vars

\* the second report of an enhanced calculator, with revenue and costs
C12_Witness ==
    /\ EnhancedReturned
    /\ calls = 2
    /\ FGt(report.value.annual_revenue.charging_revenue, Zero)
    /\ FGt(report.value.annual_costs.electricity_costs, Zero)

\* every field of the revenue model is zero or more
NonNegativeRevenueModel ==
    \A f \in DOMAIN calc.revenue : FLe(Zero, calc.revenue[f])

\* whether a method's result (a record of numbers) holds a raised error
RaisesIn(r) == \E f \in DOMAIN r : r[f].k = "raised"

\* C13: with every field of the revenue model zero or more, none of
\* calculate_annual_sessions, calculate_charging_revenue,
\* calculate_additional_revenue and calculate_electricity_costs raises, and
\* the report that uses them is returned.
C13_RevenueComputationsAreTotal ==
    (calc.kind = "enhanced" /\ NonNegativeRevenueModel) =>
        /\ ~RaisesIn(calculate_annual_sessions(calc, Binary64))
        /\ ~RaisesIn(calculate_charging_revenue(calc, Binary64))
        /\ ~RaisesIn(calculate_additional_revenue(calc, Binary64))
        /\ ~RaisesIn(calculate_electricity_costs(calc, Binary64))
        /\ report.status # "raised"

\* whether a rendering of the payback period is float('inf') formatted as a
\* number of years
FormatsSentinel(shown) == shown.text = "years" /\ shown.number.digits = "inf"

\* C14: no rendering of payback_period_years (Overview metric, text export,
\* CSV export, either print_report) shows the 'never' sentinel formatted as a
\* number: each shows "Never" for it.
C14_SentinelIsNeverFormattedAsNumber ==
    /\ (result.op \in {"print_report", "tab1"} /\ "payback_period" \in DOMAIN result)
           => ~FormatsSentinel(result.payback_period)
    /\ result.op = "tab6" =>
           /\ ~FormatsSentinel(result.report_text.payback_period)
           /\ result.csv_data.payback_years.digits # "inf"

\* a finite number above 0
FinitePositive(x) == x.k = "num" /\ FGt(x, Zero)

\* C15: every row of the analyzer's table has chargers > 0 and population > 0,
\* no derived value is a division by zero, and people_per_charger,
\* chargers_per_100k, market_size_score and opportunity_score are finite and
\* positive; coverage_gap is finite.
C15_DatasetIsPositiveAndMetricsFinite ==
    \A i \in 1..Len(analyzer.df.rows) :
        /\ analyzer.df.rows[i].chargers > 0
        /\ analyzer.df.rows[i].population > 0
        /\ FinitePositive(analyzer.df.rows[i].people_per_charger)
        /\ FinitePositive(analyzer.df.rows[i].chargers_per_100k)
        /\ FinitePositive(analyzer.df.rows[i].market_size_score)
        /\ FinitePositive(analyzer.df.rows[i].opportunity_score)
        /\ analyzer.df.rows[i].coverage_gap.k = "num"

\* the analyzer of the embedded list, with gaps of both signs
C15_Witness ==
    /\ Len(analyzer.df.rows) = Len(US_METRO_AREAS)
    /\ \A i \in 1..Len(US_METRO_AREAS) :
           /\ analyzer.df.rows[i].city = US_METRO_AREAS[i][1]
           /\ analyzer.df.rows[i].chargers = US_METRO_AREAS[i][6]
    /\ \E i \in 1..Len(analyzer.df.rows) : FLt(analyzer.df.rows[i].coverage_gap, Zero)
    /\ \E i \in 1..Len(analyzer.df.rows) : FGt(analyzer.df.rows[i].coverage_gap, Zero)

\* stalls x sessions per stall per day x 365 x utilization rate
BaselineSessions ==
    FMul[FMul[FMul[calc.revenue.num_stalls, calc.revenue.sessions_per_stall_per_day],
              FromInt[365]],
         calc.revenue.utilization_rate]

\* the idle-fee revenue of a session count
IdleFeeRevenueOf(sessions) ==
    FMul[FMul[FMul[sessions, calc.revenue.idle_fee_occurrence_rate],
              calc.revenue.avg_idle_minutes_per_session],
         calc.revenue.idle_fee_per_minute]

\* the membership revenue of a session count, at 4 sessions per customer and
\* month
MembershipRevenueOf(sessions) ==
    FMul[FMul[FMul[FDiv[FDiv[sessions, FromInt[12]], FromInt[4]],
                   calc.revenue.percent_members],
              calc.revenue.membership_monthly_fee],
         FromInt[12]]

\* C16: the reported total_sessions is baseline x (5/7) x weekday_multiplier +
\* baseline x (2/7) x weekend_multiplier, which is weekday_sessions +
\* weekend_sessions; the tier counts, the tier kWh, the idle-fee revenue and the
\* membership revenue are computed from this total, not from the baseline.
C16_AdjustedTotalDrivesTiersAndFees ==
    EnhancedReturned =>
        /\ report.value.sessions_breakdown.total_sessions =
               FAdd[FMul[FMul[BaselineSessions, Dec[5, 7]], calc.revenue.weekday_multiplier],
                    FMul[FMul[BaselineSessions, Dec[2, 7]], calc.revenue.weekend_multiplier]]
        /\ report.value.sessions_breakdown.total_sessions =
               FAdd[report.value.sessions_breakdown.weekday_sessions,
                    report.value.sessions_breakdown.weekend_sessions]
        /\ \A tier \in {"peak", "standard", "off_peak"} :
               /\ report.value.sessions_breakdown[tier \o "_sessions"] =
                      FMul[report.value.sessions_breakdown.total_sessions,
                           calc.revenue[tier \o "_usage_percent"]]
               /\ report.value.charging_revenue_detail[tier \o "_kwh"] =
                      FMul[FMul[report.value.sessions_breakdown.total_sessions,
                                calc.revenue[tier \o "_usage_percent"]],
                           calc.revenue.avg_kwh_per_session]
        /\ report.value.additional_revenue.idle_fee_revenue =
               IdleFeeRevenueOf(report.value.sessions_breakdown.total_sessions)
        /\ report.value.additional_revenue.membership_revenue =
               MembershipRevenueOf(report.value.sessions_breakdown.total_sessions)

\* a report whose adjusted total is not the baseline and whose tiers, idle fees
\* and memberships are not 0
C16_Witness ==
    /\ EnhancedReturned
    /\ report.value.sessions_breakdown.total_sessions # BaselineSessions
    /\ FGt(report.value.sessions_breakdown.peak_sessions, Zero)
    /\ FGt(report.value.sessions_breakdown.off_peak_sessions, Zero)
    /\ FGt(report.value.additional_revenue.idle_fee_revenue, Zero)
    /\ FGt(report.value.additional_revenue.membership_revenue, Zero)

\* 1 - percent_members x (member_discount_per_kwh / standard_price)
MemberAdjustment ==
    FSub[FromInt[1],
         FMul[calc.revenue.percent_members,
              FDiv[calc.revenue.member_discount_per_kwh, calc.revenue.standard_price]]]

\* 0.25 x summer + 0.25 x winter + 0.50 x spring_fall
SeasonalFactor ==
    FAdd[FAdd[FMul[Dec[25, 100], calc.revenue.summer_multiplier],
              FMul[Dec[25, 100], calc.revenue.winter_multiplier]],
         FMul[Dec[50, 100], calc.revenue.spring_fall_multiplier]]

\* a tier's revenue before the seasonal scaling: kWh x price x member adjustment
TierRevenueBeforeSeason(tier) ==
    FMul[FMul[FMul[report.value.sessions_breakdown[tier \o "_sessions"],
                   calc.revenue.avg_kwh_per_session],
              calc.revenue[tier \o "_price"]],
         MemberAdjustment]

\* C17: each tier's kWh is its session count x avg_kwh_per_session and each
\* tier's revenue is kWh x the tier's price x the member adjustment, the one
\* scalar 1 - percent_members x member_discount_per_kwh / standard_price for
\* all three tiers; the report shows it scaled by the seasonal factor.
C17_TierRevenueIsKwhPriceMemberAdjustment ==
    EnhancedReturned =>
        \A tier \in {"peak", "standard", "off_peak"} :
            /\ report.value.charging_revenue_detail[tier \o "_kwh"] =
                   FMul[report.value.sessions_breakdown[tier \o "_sessions"],
                        calc.revenue.avg_kwh_per_session]
            /\ report.value.charging_revenue_detail[tier \o "_revenue"] =
                   FMul[TierRevenueBeforeSeason(tier), SeasonalFactor]

\* a report with members and a discount and revenue in every tier
C17_Witness ==
    /\ EnhancedReturned
    /\ FLt(MemberAdjustment, FromInt[1])
    /\ \A tier \in {"peak", "standard", "off_peak"} :
           FGt(report.value.charging_revenue_detail[tier \o "_revenue"], Zero)
    /\ SeasonalFactor # FromInt[1]

\* C18: the three reported tier revenues and total_charging_revenue are scaled
\* by the same seasonal factor, so the reported total is the sum of the three
\* reported tier revenues.
C18_TotalIsSumOfReportedTiers ==
    EnhancedReturned =>
        report.value.charging_revenue_detail.total_charging_revenue =
            FAdd[FAdd[report.value.charging_revenue_detail.peak_revenue,
                      report.value.charging_revenue_detail.standard_revenue],
                 report.value.charging_revenue_detail.off_peak_revenue]

\* C19: idle-fee revenue is (total sessions x idle_fee_occurrence_rate) x
\* avg_idle_minutes_per_session x idle_fee_per_minute on the adjusted total of
\* sessions, and the report shows it as additional_revenue.idle_fee_revenue and
\* as annual_revenue.idle_fees.
C19_IdleFeeRevenue ==
    EnhancedReturned =>
        /\ report.value.additional_revenue.idle_fee_revenue =
               IdleFeeRevenueOf(report.value.sessions_breakdown.total_sessions)
        /\ report.value.annual_revenue.idle_fees =
               IdleFeeRevenueOf(report.value.sessions_breakdown.total_sessions)

\* idle fees on a part of the sessions, from an adjusted total that is not the
\* baseline
C19_Witness ==
    /\ EnhancedReturned
    /\ FGt(report.value.annual_revenue.idle_fees, Zero)
    /\ FLt(calc.revenue.idle_fee_occurrence_rate, FromInt[1])
    /\ report.value.annual_revenue.idle_fees # IdleFeeRevenueOf(BaselineSessions)

\* C20: membership revenue is ((total sessions / 12) / 4) x percent_members x
\* membership_monthly_fee x 12, and the total annual revenue is the charging
\* revenue plus the idle-fee revenue and the membership revenue (these two
\* added first).
C20_MembershipAndTotalRevenue ==
    EnhancedReturned =>
        /\ report.value.annual_revenue.memberships =
               MembershipRevenueOf(report.value.sessions_breakdown.total_sessions)
        /\ report.value.annual_revenue.total_revenue =
               FAdd[report.value.annual_revenue.charging_revenue,
                    FAdd[report.value.annual_revenue.idle_fees,
                         report.value.annual_revenue.memberships]]

\* a report with revenue of all three kinds
C20_Witness ==
    /\ EnhancedReturned
    /\ FGt(report.value.annual_revenue.charging_revenue, Zero)
    /\ FGt(report.value.annual_revenue.idle_fees, Zero)
    /\ FGt(report.value.annual_revenue.memberships, Zero)

\* the electricity a report's tier kWh cost at the three electricity rates
ElectricityCostOfReportedKwh ==
    FAdd[FAdd[FMul[report.value.charging_revenue_detail.peak_kwh,
                   calc.revenue.electricity_rate_peak],
              FMul[report.value.charging_revenue_detail.standard_kwh,
                   calc.revenue.electricity_rate_standard]],
         FMul[report.value.charging_revenue_detail.off_peak_kwh,
              calc.revenue.electricity_rate_off_peak]]

\* C21: whatever the charging prices, the member discount and the seasonal
\* multipliers, the electricity cost is computed, and it is peak kWh x peak rate
\* + standard kWh x standard rate + off-peak kWh x off-peak rate.
C21_ElectricityCostIsKwhTimesRates ==
    (calc.kind = "enhanced" /\ report.status # "none") =>
        /\ report.status = "returned"
        /\ report.value.electricity_breakdown.total_electricity_cost =
               ElectricityCostOfReportedKwh
        /\ report.value.annual_costs.electricity_costs = ElectricityCostOfReportedKwh

IsBandOf(band, gap) ==
    /\ band \in {"Underserved (High Opportunity)", "Balanced", "Oversaturated"}
    /\ band = "Underserved (High Opportunity)" <=> FLt(gap, FNeg[Dec[1, 2]])
    /\ band = "Oversaturated" <=> FGt(gap, Dec[1, 2])
    /\ (gap = Dec[1, 2] \/ gap = FNeg[Dec[1, 2]]) => band = "Balanced"

\* C23: for every (city, state) of the table classify_market returns the band
\* of that record's coverage_gap, and a classification that a caller has been
\* given is the band of the gap of the market asked about.
C23_ClassificationIsBandOfGap ==
    /\ result.op = "none" =>
           \A i \in 1..Len(analyzer.df.rows) :
               IsBandOf(classify_market(analyzer, analyzer.df.rows[i].city,
                                        analyzer.df.rows[i].state),
                        analyzer.df.rows[i].coverage_gap)
    /\ result.op = "classify_market" =>
           \A i \in 1..Len(analyzer.df.rows) :
               (analyzer.df.rows[i].city = result.city
                    /\ analyzer.df.rows[i].state = result.state)
                   => IsBandOf(result.value, analyzer.df.rows[i].coverage_gap)

\* a market whose gap is exactly 0.5 has been classified Balanced
C23_Witness ==
    /\ result.op = "classify_market"
    /\ result.value = "Balanced"
    /\ \E i \in 1..Len(analyzer.df.rows) :
           /\ analyzer.df.rows[i].city = result.city
           /\ analyzer.df.rows[i].state = result.state
           /\ analyzer.df.rows[i].coverage_gap = Dec[1, 2]

\* whether a state belongs to the region of that name: its list contains the
\* state, or the name is 'Other' and no list does
InRegion(state, name) ==
    \/ \E j \in 1..Len(regions) : regions[j][1] = name /\ state \in regions[j][2]
    \/ name = "Other" /\ \A j \in 1..Len(regions) : state \notin regions[j][2]

\* the records of the table whose state belongs to the region
RegionRecords(name) ==
    SelectSeq(analyzer.df.rows, LAMBDA row : InRegion(row.state, name))

\* C24: get_regional_analysis assigns every record the region whose list
\* contains its state, or 'Other', and returns one row per region that has a
\* record: the sums of population and chargers and the count of its records,
\* chargers_per_100k = chargers / population x 100000 and people_per_charger =
\* population / chargers of these sums, in descending order of
\* chargers_per_100k; the regional sums add up to the totals of the table.
C24_RegionalAnalysisAggregatesByRegion ==
    result.op = "get_regional_analysis" =>
        /\ \A i \in 1..Len(analyzer.df.rows) :
               /\ InRegion(analyzer.df.rows[i].state, analyzer.df.rows[i].region)
               /\ \E g \in 1..Len(result.value.rows) :
                      result.value.index[g] = analyzer.df.rows[i].region
        /\ \A g, h \in 1..Len(result.value.rows) :
               result.value.index[g] = result.value.index[h] => g = h
        /\ \A g \in 1..Len(result.value.rows) :
               /\ result.value.rows[g].cities >= 1
               /\ result.value.rows[g].cities = Len(RegionRecords(result.value.index[g]))
               /\ result.value.rows[g].population =
                      IntSum[[i \in 1..Len(RegionRecords(result.value.index[g])) |->
                                 RegionRecords(result.value.index[g])[i].population]]
               /\ result.value.rows[g].chargers =
                      IntSum[[i \in 1..Len(RegionRecords(result.value.index[g])) |->
                                 RegionRecords(result.value.index[g])[i].chargers]]
               /\ result.value.rows[g].chargers_per_100k =
                      FMul[FDiv[FromInt[result.value.rows[g].chargers],
                                FromInt[result.value.rows[g].population]],
                           FromInt[100000]]
               /\ result.value.rows[g].people_per_charger =
                      FDiv[FromInt[result.value.rows[g].population],
                           FromInt[result.value.rows[g].chargers]]
               /\ g < Len(result.value.rows) =>
                      FCmp[result.value.rows[g].chargers_per_100k,
                           result.value.rows[g + 1].chargers_per_100k] >= 0
        /\ IntSum[[g \in 1..Len(result.value.rows) |-> result.value.rows[g].population]]
               = IntSum[[i \in 1..Len(analyzer.df.rows) |-> analyzer.df.rows[i].population]]
        /\ IntSum[[g \in 1..Len(result.value.rows) |-> result.value.rows[g].chargers]]
               = IntSum[[i \in 1..Len(analyzer.df.rows) |-> analyzer.df.rows[i].chargers]]
        /\ IntSum[[g \in 1..Len(result.value.rows) |-> result.value.rows[g].cities]]
               = Len(analyzer.df.rows)

\* the regional analysis of the embedded list: several regions, one of them
\* 'Other' with one city, and the population total of the 61 records
C24_Witness ==
    /\ result.op = "get_regional_analysis"
    /\ Len(analyzer.df.rows) = Len(US_METRO_AREAS)
    /\ Len(result.value.rows) > 2
    /\ \E g \in 1..Len(result.value.rows) :
           result.value.index[g] = "Other" /\ result.value.rows[g].cities = 1
    /\ IntSum[[g \in 1..Len(result.value.rows) |-> result.value.rows[g].population]]
           = 51336959

\* the frame holds n different records of the table, each with the values the
\* table has for the frame's columns
IsSelectionOf(frame, n) ==
    /\ Len(frame.rows) = n
    /\ \A j, k \in 1..n : frame.index[j] = frame.index[k] => j = k
    /\ \A k \in 1..n :
           /\ frame.index[k] \in 0..(Len(analyzer.df.rows) - 1)
           /\ \A c \in DOMAIN frame.rows[k] :
                  frame.rows[k][c] = analyzer.df.rows[frame.index[k] + 1][c]

\* the densities of the records of the table that the frame leaves out
DensitiesLeftOut(frame) ==
    {analyzer.df.rows[i].chargers_per_100k :
         i \in {i \in 1..Len(analyzer.df.rows) :
                    \A k \in 1..Len(frame.rows) : frame.index[k] # i - 1}}

\* C25: for 1 <= N <= size of the table, get_underserved_markets(N) returns N
\* records with the lowest chargers_per_100k in non-decreasing order and
\* get_oversaturated_markets(N) the N records with the highest in
\* non-increasing order; for N = size of the table the densities of each are
\* those of the other in reverse, and so are the records whose density no
\* other record has.
C25_UnderservedAndOversaturatedAreExtremes ==
    /\ result.op = "get_underserved_markets" =>
           /\ IsSelectionOf(result.value, result.n)
           /\ \A k \in 1..(result.n - 1) :
                  FCmp[result.value.rows[k].chargers_per_100k,
                       result.value.rows[k + 1].chargers_per_100k] <= 0
           /\ \A d \in DensitiesLeftOut(result.value) :
                  FCmp[result.value.rows[result.n].chargers_per_100k, d] <= 0
    /\ result.op = "get_oversaturated_markets" =>
           /\ IsSelectionOf(result.value, result.n)
           /\ \A k \in 1..(result.n - 1) :
                  FCmp[result.value.rows[k].chargers_per_100k,
                       result.value.rows[k + 1].chargers_per_100k] >= 0
           /\ \A d \in DensitiesLeftOut(result.value) :
                  FCmp[result.value.rows[result.n].chargers_per_100k, d] >= 0
    /\ (result.op = "get_underserved_markets" /\ result.n = Len(analyzer.df.rows)) =>
           \E over \in {get_oversaturated_markets(analyzer, result.n)} :
               \A k \in 1..result.n :
                   /\ result.value.rows[k].chargers_per_100k
                          = over.rows[result.n + 1 - k].chargers_per_100k
                   /\ (\A j \in 1..result.n :
                           result.value.rows[j].chargers_per_100k
                               = result.value.rows[k].chargers_per_100k => j = k)
                        => result.value.index[k] = over.index[result.n + 1 - k]
    /\ (result.op = "get_oversaturated_markets" /\ result.n = Len(analyzer.df.rows)) =>
           \E under \in {get_underserved_markets(analyzer, result.n)} :
               \A k \in 1..result.n :
                   /\ result.value.rows[k].chargers_per_100k
                          = under.rows[result.n + 1 - k].chargers_per_100k
                   /\ (\A j \in 1..result.n :
                           result.value.rows[j].chargers_per_100k
                               = result.value.rows[k].chargers_per_100k => j = k)
                        => result.value.index[k] = under.index[result.n + 1 - k]

\* the ten least dense markets of the embedded list were asked for: some
\* records are left out and the first returned is less dense than the last
C25_Witness ==
    /\ result.op = "get_underserved_markets"
    /\ result.n = 10
    /\ Len(analyzer.df.rows) = Len(US_METRO_AREAS)
    /\ Len(result.value.rows) = 10
    /\ DensitiesLeftOut(result.value) # {}
    /\ FCmp[result.value.rows[1].chargers_per_100k,
            result.value.rows[10].chargers_per_100k] < 0

\* C26: the projection loop of the dashboard, which starts from
\* -initial_investment at year 0 and adds annual_profit for each of the years
\* 1..10, gives at year 5 and at year 10 the report's
\* year_5_cumulative_profit and year_10_cumulative_profit.
C26_ProjectionLoopAgreesWithReport ==
    result.op = "tab3" =>
        /\ result.cumulative_profit[1 + 5]
               = report.value.roi_metrics.year_5_cumulative_profit
        /\ result.cumulative_profit[1 + 10]
               = report.value.roi_metrics.year_10_cumulative_profit

\* the parameters are neutral: multipliers of 1, no members, no idle fees,
\* usage shares that sum to 1, one charging price and one electricity rate
\* for the three tiers
NeutralRevenue(revenue) ==
    /\ revenue.weekday_multiplier = FromInt[1]
    /\ revenue.weekend_multiplier = FromInt[1]
    /\ revenue.summer_multiplier = FromInt[1]
    /\ revenue.winter_multiplier = FromInt[1]
    /\ revenue.spring_fall_multiplier = FromInt[1]
    /\ revenue.percent_members = Zero
    /\ revenue.idle_fee_occurrence_rate = Zero
    /\ FAdd[FAdd[revenue.peak_usage_percent, revenue.standard_usage_percent],
            revenue.off_peak_usage_percent] = FromInt[1]
    /\ revenue.peak_price = revenue.standard_price
    /\ revenue.off_peak_price = revenue.standard_price
    /\ revenue.electricity_rate_peak = revenue.electricity_rate_standard
    /\ revenue.electricity_rate_off_peak = revenue.electricity_rate_standard

\* the legacy calculator with the parameters of the enhanced one
LegacyOf(self) ==
    SuperchargerProfitabilityCalculator(
        [num_stalls                 |-> self.revenue.num_stalls,
         equipment_cost_per_stall   |-> self.equipment.charger_unit_cost,
         installation_cost          |-> InstallationCosts_total(self.installation, Binary64),
         permitting_fees            |-> LicensingLegalCosts_total(self.licensing, Binary64),
         land_lease_annual          |-> self.operating.land_lease_rent,
         electricity_rate_kwh       |-> self.revenue.electricity_rate_standard,
         maintenance_annual         |-> self.operating.maintenance_contract,
         charging_price_kwh         |-> self.revenue.standard_price,
         avg_kwh_per_session        |-> self.revenue.avg_kwh_per_session,
         sessions_per_stall_per_day |-> self.revenue.sessions_per_stall_per_day,
         utilization_rate           |-> self.revenue.utilization_rate])

\* an enhanced calculator with neutral parameters has returned a report whose
\* fixed operating costs are land lease plus maintenance and whose initial
\* investment is that of the legacy calculator
NeutralReport ==
    /\ calc.kind = "enhanced"
    /\ report.status = "returned"
    /\ NeutralRevenue(calc.revenue)
    /\ report.value.annual_costs.fixed_operating_costs
           = FAdd[calc.operating.land_lease_rent, calc.operating.maintenance_contract]
    /\ report.value.initial_investment.total
           = calculate_initial_investment(LegacyOf(calc), Binary64)

\* C27: with neutral parameters the enhanced calculator's report has the
\* annual revenue, electricity cost, annual profit, ROI, payback period and
\* 5-year profit that the legacy calculator reports for the same parameters.
C27_NeutralEnhancedAgreesWithLegacy ==
    NeutralReport =>
        \E legacy \in {generate_report(LegacyOf(calc), Binary64)} :
            /\ report.value.annual_revenue.total_revenue = legacy.annual_revenue
            /\ report.value.annual_costs.electricity_costs = legacy.annual_electricity_cost
            /\ report.value.annual_profit = legacy.annual_profit
            /\ report.value.roi_metrics.roi_percentage = legacy.roi_percentage
            /\ report.value.roi_metrics.payback_period_years = legacy.payback_period_years
            /\ report.value.roi_metrics.year_5_cumulative_profit = legacy.five_year_profit

\* C29: in every report of the enhanced calculator the stall count that
\* multiplies the charger unit cost in the equipment total is the stall count
\* that drives the session count (revenue.num_stalls), however the calculator
\* was constructed.
C29_OneStallCountInEveryReport ==
    (calc.kind = "enhanced" /\ report.status = "returned") =>
        report.value.initial_investment.equipment
            = EquipmentCosts_total([calc.equipment EXCEPT
                                       !.num_stalls = calc.revenue.num_stalls], Binary64)

\* C28: get_market_data returns a table with the contents of the analyzer's
\* that is an object of its own: whatever the caller changes in it, the
\* analyzer's table stays as it was, and so does what the later queries
\* return.
C28_MarketDataIsAnIndependentCopy ==
    [][/\ (result.op = "none" /\ result'.op = "get_market_data") =>
              /\ result'.value = analyzer.df
              /\ analyzer' = analyzer
       /\ (result.op = "get_market_data" /\ result'.op = "get_market_data") =>
              /\ analyzer' = analyzer
              /\ get_market_data(analyzer').value = get_market_data(analyzer).value
              /\ get_national_stats(analyzer') = get_national_stats(analyzer)
              /\ get_top_opportunities(analyzer', 1) = get_top_opportunities(analyzer, 1)]_vars

\* the caller has changed the table returned for the embedded list: it
\* differs from the analyzer's table, which still has its 61 records
C28_Witness ==
    /\ result.op = "get_market_data"
    /\ result.changed
    /\ result.value # analyzer.df
    /\ Len(analyzer.df.rows) = Len(US_METRO_AREAS)
    /\ get_market_data(analyzer).value = analyzer.df

\* C30: for the embedded dataset the region lists are pairwise disjoint and
\* every record's state is in exactly one of the five, so
\* get_regional_analysis returns exactly the five named regions and no
\* record is put in 'Other'.
C30_EmbeddedDatasetHasFiveRegions ==
    (result.op = "get_regional_analysis" /\ Len(analyzer.df.rows) = Len(US_METRO_AREAS)) =>
        /\ \A i, j \in 1..Len(regions) : i # j => regions[i][2] \cap regions[j][2] = {}
        /\ \A k \in 1..Len(analyzer.df.rows) :
               /\ Cardinality({j \in 1..Len(regions) :
                                   analyzer.df.rows[k].state \in regions[j][2]}) = 1
               /\ analyzer.df.rows[k].region # "Other"
        /\ Len(result.value.rows) = 5
        /\ {result.value.index[g] : g \in 1..Len(result.value.rows)}
               = {regions[j][1] : j \in 1..Len(regions)}

====
